---- MODULE Spec2Model ----
(***************************************************************************)
(* Study intake engine of mind-frontend's worker: the expression           *)
(* evaluator, the compute engine, the answer validator                     *)
(* (worker/src/utils/engine.ts) and the intake handlers                    *)
(* (worker/src/handlers/engine.ts) over the relational store.              *)
(*                                                                         *)
(* JavaScript values are tagged records.  JavaScript strings are TLA+      *)
(* strings; the string operations the code uses (split, trim, Number,      *)
(* Date.parse, the time pattern) are tables over the strings of the model. *)
(* A JSON text is modelled by the value it decodes to.                     *)
(***************************************************************************)
EXTENDS Integers, Sequences, FiniteSets, Bags, TLC

VARIABLES
    tables,    \* the relational store: table name -> sequence of rows (id = position);
               \* audit_logs, which no handler reads, is the bag of its rows
    now,       \* the clock new Date() reads
    req,       \* the intake-submit requests: request -> the handler's locals and position
    view,      \* the intake-result requests: request -> the handler's locals and position
    call       \* a direct call of one of the engine's exported functions: its
               \* arguments and, once it has returned, its outcome

vars == <<tables, now, req, view, call>>

(***************************************************************************)
(* JavaScript values                                                       *)
(***************************************************************************)
Undefined == [t |-> "undefined"]
Null == [t |-> "null"]
NaN == [t |-> "number", nan |-> TRUE]
Infinity == [t |-> "number", inf |-> TRUE]
FnOf(k) == [t |-> "function", name |-> k]
Num(n) == [t |-> "number", n |-> n]
Str(s) == [t |-> "string", s |-> s]
Bool(b) == [t |-> "boolean", b |-> b]
Arr(a) == [t |-> "array", a |-> a]
Obj(o) == [t |-> "object", o |-> o]
EmptyObj == Obj(<<>>)

\* Number.isFinite(v) for a value of type number
IsFiniteNumber(v) == v.t = "number" /\ "n" \in DOMAIN v

\* v is null or undefined (the test of ?? and of !== null && !== undefined)
IsNullish(v) == v.t \in {"undefined", "null"}

\* a ?? b
Coalesce(a, b) == IF IsNullish(a) THEN b ELSE a

\* typeof v === 'object' && v !== null
IsObjectLike(v) == v.t \in {"object", "array"}

\* ToBoolean(v)
Truthy(v) ==
    CASE v.t \in {"undefined", "null"} -> FALSE
      [] v.t = "boolean" -> v.b
      [] v.t = "number" -> IsFiniteNumber(v) /\ v.n # 0
      [] v.t = "string" -> v.s # ""
      [] OTHER -> TRUE

\* Property names every object inherits from Object.prototype (representatives).
ObjectPrototypeKeys == {"toString", "constructor"}

\* The array index a property name denotes (1-based position), 0 when it is none.
ArrayIndex(k) ==
    CASE k = "0" -> 1
      [] k = "1" -> 2
      [] k = "2" -> 3
      [] OTHER -> 0

\* k in v, for an object or an array v: own and inherited properties.
HasProperty(v, k) ==
    CASE v.t = "object" -> k \in DOMAIN v.o \/ k \in ObjectPrototypeKeys
      [] v.t = "array" -> \/ (ArrayIndex(k) >= 1 /\ ArrayIndex(k) <= Len(v.a))
                          \/ k = "length"
                          \/ k \in ObjectPrototypeKeys
      [] OTHER -> FALSE

\* v[k]: the own property, else the inherited one, else undefined.
GetProperty(v, k) ==
    CASE v.t = "object" ->
            IF k \in DOMAIN v.o THEN v.o[k]
            ELSE IF k \in ObjectPrototypeKeys THEN FnOf(k) ELSE Undefined
      [] v.t = "array" ->
            IF ArrayIndex(k) >= 1 /\ ArrayIndex(k) <= Len(v.a) THEN v.a[ArrayIndex(k)]
            ELSE IF k = "length" THEN Num(Len(v.a))
            ELSE IF k \in ObjectPrototypeKeys THEN FnOf(k) ELSE Undefined
      [] v.t = "string" -> IF k \in ObjectPrototypeKeys THEN FnOf(k) ELSE Undefined
      [] v.t \in {"number", "boolean", "function"} ->
            IF k \in ObjectPrototypeKeys THEN FnOf(k) ELSE Undefined
      [] OTHER -> Undefined

\* obj with own property k set to v (obj[k] = v, or a spread followed by k: v)
SetProperty(obj, k, v) ==
    Obj([x \in DOMAIN obj.o \cup {k} |-> IF x = k THEN v ELSE obj.o[x]])

\* An evaluation's outcome: a value, or an exception with its message.
Ok(v) == [thrown |-> FALSE, v |-> v]
Throw(msg) == [thrown |-> TRUE, error |-> msg]

\* Error messages: a TypeError of the runtime, and the compute engine's own error,
\* whose text ends with the key.
TypeError == [text |-> "TypeError"]
CircularError(key) == [text |-> "Circular compute dependency detected for", key |-> key]

(***************************************************************************)
(* JSON                                                                    *)
(***************************************************************************)
RECURSIVE JsonValue(_)
\* The value a JSON.stringify text of v decodes to: properties holding undefined
\* or a function are dropped, such array elements and non-finite numbers
\* become null.
JsonValue(v) ==
    CASE v.t = "object" ->
            Obj([k \in {x \in DOMAIN v.o : v.o[x].t \notin {"undefined", "function"}}
                    |-> JsonValue(v.o[k])])
      [] v.t = "array" ->
            Arr([i \in DOMAIN v.a |->
                    IF v.a[i].t \in {"undefined", "function"} THEN Null
                    ELSE JsonValue(v.a[i])])
      [] v.t = "number" -> IF IsFiniteNumber(v) THEN v ELSE Null
      [] OTHER -> v

\* JSON.stringify(v): a text, or undefined when v is undefined or a function.
JsonStringify(v) ==
    IF v.t \in {"undefined", "function"} THEN Undefined
    ELSE [t |-> "json", text |-> JsonValue(v)]

\* parseJsonValue(value, fallback): the fallback for a missing or empty text
\* (and for one that does not parse; every stored text was written by
\* JSON.stringify and parses), else the decoded value.
parseJsonValue(value, fallback) ==
    IF value.t # "json" THEN fallback ELSE value.text

(***************************************************************************)
(* Strings: the operations of the code, as tables over the model's strings *)
(***************************************************************************)
\* variable.split('.')
Split(s) ==
    CASE s = "answers.age" -> <<"answers", "age">>
      [] s = "answers.items" -> <<"answers", "items">>
      [] s = "answers.items.0" -> <<"answers", "items", "0">>
      [] s = "answers.items.length" -> <<"answers", "items", "length">>
      [] s = "answers.age.x" -> <<"answers", "age", "x">>
      [] s = "answers.missing" -> <<"answers", "missing">>
      [] s = "answers.toString" -> <<"answers", "toString">>
      [] s = "computed.a" -> <<"computed", "a">>
      [] s = "computed.b" -> <<"computed", "b">>
      [] s = "computed.k" -> <<"computed", "k">>
      [] s = "computed.k.x" -> <<"computed", "k", "x">>
      [] s = "computed.toString" -> <<"computed", "toString">>
      [] s = "metadata.study_id" -> <<"metadata", "study_id">>
      [] s = "metadata.participant_id" -> <<"metadata", "participant_id">>
      [] s = "metadata.site" -> <<"metadata", "site">>
      [] s = "other.x" -> <<"other", "x">>
      [] OTHER -> <<s>>

\* variable.startsWith('computed.')
StartsWithComputed(s) == Len(Split(s)) >= 2 /\ Split(s)[1] = "computed"

\* variable.slice('computed.'.length), for a variable that starts with 'computed.'
AfterComputed(s) ==
    CASE s = "computed.a" -> "a"
      [] s = "computed.b" -> "b"
      [] s = "computed.k" -> "k"
      [] s = "computed.k.x" -> "k.x"
      [] s = "computed.toString" -> "toString"
      [] OTHER -> "?"

\* s.trim()
Trim(s) ==
    CASE s = " " -> ""
      [] s = " 24 " -> "24"
      [] OTHER -> s

\* Number(s) for a string s
NumberOfString(s) ==
    CASE Trim(s) = "" -> Num(0)
      [] Trim(s) = "15" -> Num(15)
      [] Trim(s) = "18" -> Num(18)
      [] Trim(s) = "24" -> Num(24)
      [] OTHER -> NaN

\* Date.parse(s) for a string s that is no number: NaN, or the milliseconds since
\* the epoch, counted here from 2026-02-13T00:00:00Z (an order-preserving shift
\* that keeps the numbers within 32-bit integers)
DateParse(s) ==
    CASE s = "2026-02-13" -> Num(0)
      [] s = "2026-02-20" -> Num(604800000)
      [] s = "2026-03-01T00:00:00.001Z" -> Num(1382400001)
      [] s = "2026-03-01T00:00:00.002Z" -> Num(1382400002)
      [] s = "2026-03-01T00:00:00.003Z" -> Num(1382400003)
      [] s = "2026-03-01T00:00:00.004Z" -> Num(1382400004)
      [] OTHER -> NaN

\* new Date().toISOString() at clock reading time
IsoString(time) ==
    CASE time = 1 -> "2026-03-01T00:00:00.001Z"
      [] time = 2 -> "2026-03-01T00:00:00.002Z"
      [] time = 3 -> "2026-03-01T00:00:00.003Z"
      [] OTHER -> "2026-03-01T00:00:00.004Z"

\* a < b for two strings (code-unit order), over the model's strings
StringRank(s) ==
    CASE s = "A" -> 1
      [] s = "B" -> 2
      [] s = "abc" -> 3
      [] s = "main" -> 4
      [] OTHER -> 5

\* Number(v) for any value
ToNumber(v) ==
    CASE v.t = "number" -> v
      [] v.t = "null" -> Num(0)
      [] v.t = "boolean" -> IF v.b THEN Num(1) ELSE Num(0)
      [] v.t = "string" -> NumberOfString(v.s)
      [] v.t = "array" ->
            IF Len(v.a) = 0 THEN Num(0)
            ELSE IF Len(v.a) = 1 /\ v.a[1].t \in {"number", "string"}
                 THEN (IF v.a[1].t = "number" THEN v.a[1] ELSE NumberOfString(v.a[1].s))
                 ELSE NaN
      [] OTHER -> NaN

\* String(v), for the values a rule's assignment holds
StringOf(v) ==
    CASE v.t = "string" -> v.s
      [] v.t = "undefined" -> "undefined"
      [] v.t = "null" -> "null"
      [] v.t = "boolean" -> IF v.b THEN "true" ELSE "false"
      [] v.t = "number" ->
            IF ~IsFiniteNumber(v) THEN "NaN"
            ELSE IF v.n = 1 THEN "1" ELSE IF v.n = 2 THEN "2" ELSE "<number>"
      [] OTHER -> "[object Object]"

(***************************************************************************)
(* Path resolver and expression evaluator (worker/src/utils/engine.ts)     *)
(***************************************************************************)
RECURSIVE resolvePath(_, _)
\* path.reduce over the segments: a step into a missing property, or into a
\* value that is no object, gives undefined.
resolvePath(target, path) ==
    IF path = <<>> THEN target
    ELSE LET segment == Head(path)
             next == IF Truthy(target) /\ IsObjectLike(target) /\ HasProperty(target, segment)
                     THEN GetProperty(target, segment)
                     ELSE Undefined
         IN resolvePath(next, Tail(path))

\* context is [answers, computed, metadata], each an object value
resolveVariable(variable, context) ==
    LET parts == Split(variable)
        scope == Head(parts)
        pathParts == Tail(parts)
    IN CASE scope = "answers" ->
                IF Len(pathParts) > 0 THEN resolvePath(context.answers, pathParts)
                ELSE context.answers
         [] scope = "computed" ->
                IF Len(pathParts) > 0 THEN resolvePath(context.computed, pathParts)
                ELSE context.computed
         [] scope = "metadata" ->
                IF Len(pathParts) > 0 THEN resolvePath(context.metadata, pathParts)
                ELSE context.metadata
         [] OTHER -> Undefined

\* Ok(value), or the TypeError of operand.var.split on a var that is no string
resolveOperand(operand, context) ==
    IF operand.t = "undefined" THEN Ok(Undefined)
    ELSE IF IsObjectLike(operand)
    THEN IF HasProperty(operand, "var")
         THEN LET variable == GetProperty(operand, "var")
              IN IF variable.t = "string" THEN Ok(resolveVariable(variable.s, context))
                 ELSE Throw(TypeError)
         ELSE IF HasProperty(operand, "value") THEN Ok(GetProperty(operand, "value"))
         ELSE Ok(operand)
    ELSE Ok(operand)

\* Where an operand's value lives: two operands name the same object only when
\* both read the same variable.
OperandOrigin(operand) ==
    IF IsObjectLike(operand) /\ HasProperty(operand, "var")
    THEN <<"var", GetProperty(operand, "var")>>
    ELSE <<"literal">>

\* a === b, the operands' origins deciding the identity of objects
StrictEquals(a, b, aOrigin, bOrigin) ==
    IF a.t # b.t THEN FALSE
    ELSE CASE a.t \in {"object", "array"} -> aOrigin[1] = "var" /\ aOrigin = bOrigin
           [] a.t = "number" -> IsFiniteNumber(a) /\ IsFiniteNumber(b) /\ a.n = b.n
           [] OTHER -> a = b

\* number | string | null
toComparable(value) ==
    IF IsFiniteNumber(value) THEN value
    ELSE IF value.t = "string"
    THEN LET trimmed == Trim(value.s)
         IN IF trimmed = "" THEN Null
            ELSE IF IsFiniteNumber(NumberOfString(trimmed)) THEN NumberOfString(trimmed)
            ELSE IF IsFiniteNumber(DateParse(trimmed)) THEN DateParse(trimmed)
            ELSE Str(trimmed)
    ELSE Null

hasValue(value) ==
    IF IsNullish(value) THEN FALSE
    ELSE IF value.t = "string" THEN Trim(value.s) # ""
    ELSE IF value.t = "array" THEN Len(value.a) > 0
    ELSE TRUE

\* a < b for two comparables (a number against a string compares with NaN)
LessThan(a, b) ==
    IF a.t = "number" /\ b.t = "number" THEN a.n < b.n
    ELSE IF a.t = "string" /\ b.t = "string" THEN StringRank(a.s) < StringRank(b.s)
    ELSE FALSE

\* a <= b for two comparables
LessOrEqual(a, b) ==
    IF a.t = "number" /\ b.t = "number" THEN a.n <= b.n
    ELSE IF a.t = "string" /\ b.t = "string" THEN StringRank(a.s) <= StringRank(b.s)
    ELSE FALSE

\* Variant of WithinBounds: the upper bound left out of the range
BelowUpperBound(comparable, minComparable, maxComparable) ==
    LessOrEqual(minComparable, comparable) /\ LessThan(comparable, maxComparable)

\* comparable >= minComparable && comparable <= maxComparable
WithinBounds(comparable, minComparable, maxComparable) ==
    LessOrEqual(minComparable, comparable) /\ LessOrEqual(comparable, maxComparable)

RECURSIVE evaluateExpression(_, _)
RECURSIVE everyChild(_, _, _)
RECURSIVE someChild(_, _, _)

\* Variant of everyChild: the first child decides
FirstChildOnly(children, i, context) ==
    IF i > Len(children) THEN Ok(TRUE) ELSE evaluateExpression(children[i], context)

\* expression.all.every(...) from child i on: stops at the first false child
everyChild(children, i, context) ==
    IF i > Len(children) THEN Ok(TRUE)
    ELSE LET r == evaluateExpression(children[i], context)
         IN IF r.thrown THEN r
            ELSE IF ~r.v THEN Ok(FALSE)
            ELSE everyChild(children, i + 1, context)

\* expression.any.some(...) from child i on: stops at the first true child
someChild(children, i, context) ==
    IF i > Len(children) THEN Ok(FALSE)
    ELSE LET r == evaluateExpression(children[i], context)
         IN IF r.thrown THEN r
            ELSE IF r.v THEN Ok(TRUE)
            ELSE someChild(children, i + 1, context)

\* The leaf operators, left and right resolved
evaluateOperator(expression, context, leftValue, rightValue) ==
    LET op == GetProperty(expression, "op")
        is(name) == op.t = "string" /\ op.s = name
        lo == OperandOrigin(Coalesce(GetProperty(expression, "left"),
                                     GetProperty(expression, "value")))
        ro == OperandOrigin(GetProperty(expression, "right"))
    IN IF is("exists") THEN Ok(hasValue(leftValue))
       ELSE IF is("==") THEN Ok(StrictEquals(leftValue, rightValue, lo, ro))
       ELSE IF is("!=") THEN Ok(~StrictEquals(leftValue, rightValue, lo, ro))
       ELSE IF is(">") \/ is(">=") \/ is("<") \/ is("<=")
       THEN LET leftComparable == toComparable(leftValue)
                rightComparable == toComparable(rightValue)
            IN IF leftComparable.t = "null" \/ rightComparable.t = "null" THEN Ok(FALSE)
               ELSE IF is(">") THEN Ok(LessThan(rightComparable, leftComparable))
               ELSE IF is(">=") THEN Ok(LessOrEqual(rightComparable, leftComparable))
               ELSE IF is("<") THEN Ok(LessThan(leftComparable, rightComparable))
               ELSE Ok(LessOrEqual(leftComparable, rightComparable))
       ELSE IF is("in") \/ is("not_in")
       THEN LET list == IF rightValue.t = "array" THEN rightValue.a ELSE <<>>
                found == \E i \in DOMAIN list :
                            StrictEquals(list[i], leftValue, <<"literal">>, <<"literal">>)
            IN IF is("in") THEN Ok(found) ELSE Ok(~found)
       ELSE IF is("between")
       THEN LET minValue == resolveOperand(GetProperty(expression, "min"), context)
                maxValue == resolveOperand(GetProperty(expression, "max"), context)
            IN IF minValue.thrown THEN minValue
               ELSE IF maxValue.thrown THEN maxValue
               ELSE LET comparable == toComparable(leftValue)
                        minComparable == toComparable(minValue.v)
                        maxComparable == toComparable(maxValue.v)
                    IN IF \/ comparable.t = "null"
                          \/ minComparable.t = "null"
                          \/ maxComparable.t = "null"
                       THEN Ok(FALSE)
                       ELSE Ok(WithinBounds(comparable, minComparable, maxComparable))
       ELSE Ok(FALSE)

\* Variant of Negated: the operand's outcome as it is
NotNegated(r) == r

\* !evaluateExpression(expression.not, context), r the operand's outcome
Negated(r) == IF r.thrown THEN r ELSE Ok(~r.v)

\* Ok(boolean), or the TypeError of 'all' in a primitive, of every/some on a
\* value that is no array, or of a var that is no string
evaluateExpression(expression, context) ==
    IF ~(IsObjectLike(expression) \/ expression.t = "function") THEN Throw(TypeError)
    ELSE IF HasProperty(expression, "all")
    THEN LET children == GetProperty(expression, "all")
         IN IF children.t = "array" THEN everyChild(children.a, 1, context)
            ELSE Throw(TypeError)
    ELSE IF HasProperty(expression, "any")
    THEN LET children == GetProperty(expression, "any")
         IN IF children.t = "array" THEN someChild(children.a, 1, context)
            ELSE Throw(TypeError)
    ELSE IF HasProperty(expression, "not")
    THEN Negated(evaluateExpression(GetProperty(expression, "not"), context))
    ELSE LET leftValue == resolveOperand(Coalesce(GetProperty(expression, "left"),
                                                  GetProperty(expression, "value")), context)
             rightValue == resolveOperand(GetProperty(expression, "right"), context)
         IN IF leftValue.thrown THEN leftValue
            ELSE IF rightValue.thrown THEN rightValue
            ELSE evaluateOperator(expression, context, leftValue.v, rightValue.v)

(***************************************************************************)
(* Compute engine (worker/src/utils/engine.ts)                             *)
(***************************************************************************)
MinutesPerDay == 1440

\* A number with a fractional part is the pair of a numerator n and a
\* denominator d (the arithmetic is exact where the code's is floating-point)
RECURSIVE Gcd(_, _)
Gcd(a, b) == IF b = 0 THEN a ELSE Gcd(b, a % b)

\* n / d in lowest terms, for d > 0
Rational(n, d) ==
    IF n % d = 0 THEN Num(n \div d)
    ELSE [t |-> "number", n |-> n \div Gcd(d, n % d), d |-> d \div Gcd(d, n % d)]
Denominator(v) == IF "d" \in DOMAIN v THEN v.d ELSE 1

\* n.toString().padStart(2, '0') for 0 <= n < 100
Digit(n) ==
    CASE n = 0 -> "0" [] n = 1 -> "1" [] n = 2 -> "2" [] n = 3 -> "3" [] n = 4 -> "4"
      [] n = 5 -> "5" [] n = 6 -> "6" [] n = 7 -> "7" [] n = 8 -> "8" [] OTHER -> "9"
Pad2(n) == Digit(n \div 10) \o Digit(n % 10)

\* The strings of the model that match TIME_REGEX, each with its parts through
\* Number(): HH:MM for hours up to 29, H:MM, and HH:MM:SS for a few times
TimeTexts ==
    {[text |-> Pad2(h) \o ":" \o Pad2(m), parts |-> <<h, m>>] : h \in 0..29, m \in 0..99}
    \cup {[text |-> Digit(h) \o ":" \o Pad2(m), parts |-> <<h, m>>] : h \in 0..9, m \in 0..59}
    \cup {[text |-> Pad2(h) \o ":" \o Pad2(m) \o ":" \o Pad2(sec), parts |-> <<h, m, sec>>] :
            h \in {6, 23}, m \in {0, 59}, sec \in {0, 20, 30, 45}}

\* trimmed.split(':').map(Number) of a string that matches TIME_REGEX, the
\* empty sequence for one that does not
TimeOfString(s) ==
    LET hits == {e \in TimeTexts : e.text = Trim(s)}
    IN IF hits = {} THEN <<>> ELSE (CHOOSE e \in hits : TRUE).parts

\* hours * 60 + minutes + seconds / 60 of the parts of a time string
TotalMinutes(parts) ==
    IF parts = <<>> THEN Null
    ELSE IF Len(parts) = 3 THEN Rational((parts[1] * 60 + parts[2]) * 60 + parts[3], 60)
    ELSE Num(parts[1] * 60 + parts[2])

parseTimeToMinutes(value) ==
    IF IsFiniteNumber(value) THEN value
    ELSE IF value.t = "string" THEN TotalMinutes(TimeOfString(value.s))
    ELSE IF Truthy(value) /\ IsObjectLike(value) /\ HasProperty(value, "minutes")
    THEN (IF IsFiniteNumber(GetProperty(value, "minutes")) THEN GetProperty(value, "minutes")
          ELSE Null)
    ELSE Null

\* Math.round(n / d) for n / d >= 0
RoundedMinutes(n, d) == (2 * n + d) \div (2 * d)

\* hours and Math.round(minutes) of the time of day, each padded to two digits
formatMinutes(minutes) ==
    LET d == Denominator(minutes)
        normalized == minutes.n % (MinutesPerDay * d)
        hours == normalized \div (60 * d)
        mins == RoundedMinutes(normalized % (60 * d), d)
    IN Str(Pad2(hours) \o ":" \o Pad2(mins))

normalizeTime(value) ==
    LET minutes == parseTimeToMinutes(value)
    IN IF minutes.t = "null" THEN Null ELSE formatMinutes(minutes)

\* Variant of WrappedDiff: the difference as it is
PlainDiff(n, d) == Rational(n, d)

\* diff < 0 ? diff + 24 * 60 : diff, diff being n / d
WrappedDiff(n, d) == IF n < 0 THEN Rational(n + MinutesPerDay * d, d) ELSE Rational(n, d)

durationMinutes(start, end) ==
    LET startMinutes == parseTimeToMinutes(start)
        endMinutes == parseTimeToMinutes(end)
    IN IF startMinutes.t = "null" \/ endMinutes.t = "null" THEN Null
       ELSE WrappedDiff(endMinutes.n * Denominator(startMinutes)
                            - startMinutes.n * Denominator(endMinutes),
                        Denominator(startMinutes) * Denominator(endMinutes))

\* formatMinutes of startMinutes + normalizedDiff / 2 (its % leaves the time of
\* day formatMinutes takes unchanged)
midpointTime(start, end) ==
    LET startMinutes == parseTimeToMinutes(start)
        endMinutes == parseTimeToMinutes(end)
    IN IF startMinutes.t = "null" \/ endMinutes.t = "null" THEN Null
       ELSE LET diff == WrappedDiff(endMinutes.n * Denominator(startMinutes)
                                        - startMinutes.n * Denominator(endMinutes),
                                    Denominator(startMinutes) * Denominator(endMinutes))
            IN formatMinutes(Rational(
                    startMinutes.n * 2 * Denominator(diff) + diff.n * Denominator(startMinutes),
                    2 * Denominator(diff) * Denominator(startMinutes)))

\* The date dateValue plus whole days, as YYYY-MM-DD (a table over the model's dates)
addDaysToDate(dateValue, daysValue) ==
    IF ~IsFiniteNumber(daysValue) THEN Null
    ELSE IF dateValue.t # "string" THEN Null
    ELSE IF ~IsFiniteNumber(DateParse(dateValue.s)) THEN Null
    ELSE IF dateValue.s = "2026-02-13" /\ daysValue.n = 7 THEN Str("2026-02-20")
    ELSE IF daysValue.n = 0 THEN dateValue
    ELSE Str("<date>")

RECURSIVE FoldNumbers(_, _, _, _)
\* values.reduce(f, acc) from position i on, f the fold step of op
FoldNumbers(op, values, i, acc) ==
    IF i > Len(values) THEN acc
    ELSE FoldNumbers(op, values, i + 1,
            CASE op = "add" -> acc + values[i].n
              [] op = "subtract" -> acc - values[i].n
              [] OTHER -> acc * values[i].n)

\* number | null: every argument through Number(), null when one is not finite
applyArithmetic(op, values) ==
    LET numericValues == [i \in DOMAIN values |->
                            IF IsFiniteNumber(values[i]) THEN values[i] ELSE ToNumber(values[i])]
        is(name) == op.t = "string" /\ op.s = name
    IN IF \E i \in DOMAIN numericValues : ~IsFiniteNumber(numericValues[i]) THEN Null
       ELSE IF is("add") THEN Num(FoldNumbers("add", numericValues, 1, 0))
       ELSE IF is("subtract")
       THEN (IF Len(numericValues) = 0 THEN Num(0)
             ELSE Num(FoldNumbers("subtract", numericValues, 2, numericValues[1].n)))
       ELSE IF is("multiply") THEN Num(FoldNumbers("multiply", numericValues, 1, 1))
       ELSE IF Len(numericValues) = 0 THEN Null
       ELSE LET divisor == FoldNumbers("multiply", numericValues, 2, 1)
                head == numericValues[1].n
            IN IF divisor = 0 THEN (IF head = 0 THEN NaN ELSE Infinity)
               ELSE IF head % divisor = 0 THEN Num(head \div divisor)
               ELSE [t |-> "number", n |-> head, d |-> divisor]

\* definitionMap.get(key): the last definition of the list with that key
\* (a later set() overwrites an earlier one), 0 when there is none
DefinitionIndex(definitions, key) ==
    LET hits == {i \in DOMAIN definitions : definitions[i].key = key}
    IN IF hits = {} THEN 0 ELSE CHOOSE i \in hits : \A j \in hits : j <= i

RECURSIVE evaluateComputeExpression(_, _, _, _)
RECURSIVE resolveComputed(_, _, _, _)
RECURSIVE evaluateArgs(_, _, _, _, _)

\* The resolver's state st is [computedValues, visiting]; an evaluation's outcome
\* is [thrown, v, st] or a thrown error.
Evaluated(v, st) == [thrown |-> FALSE, v |-> v, st |-> st]

\* expression.args.map(...): the mapped values, first the value of one argument
\* and rest the outcome of the arguments after it
ArgsMapped(first, rest) ==
    IF rest.thrown THEN rest
    ELSE [thrown |-> FALSE, vs |-> <<first.v>> \o rest.vs, st |-> rest.st]

ArgsAfter(args, i, context, definitions, first) ==
    IF first.thrown THEN first
    ELSE ArgsMapped(first, evaluateArgs(args, i + 1, context, definitions, first.st))

\* expression.args.map(...) from argument i on, the resolver's state threaded
\* through the arguments
evaluateArgs(args, i, context, definitions, st) ==
    IF i > Len(args) THEN [thrown |-> FALSE, vs |-> <<>>, st |-> st]
    ELSE ArgsAfter(args, i, context, definitions,
                   evaluateComputeExpression(args[i], context, definitions, st))

\* resolveComputed after its evaluateComputeExpression returned r:
\* computedValues[key] = value; visiting.delete(key)
ComputedResolved(key, r) ==
    IF r.thrown THEN r
    ELSE Evaluated(r.v, [computedValues |-> SetProperty(r.st.computedValues, key, r.v),
                         visiting |-> r.st.visiting \ {key}])

\* resolveComputed for the definition at index d (0: there is none)
ResolveDefinition(key, d, context, definitions, st) ==
    IF d = 0 THEN Evaluated(Undefined, st)
    ELSE IF key \in st.visiting THEN Throw(CircularError(key))
    ELSE ComputedResolved(key,
            evaluateComputeExpression(definitions[d].definition, context, definitions,
                                      [st EXCEPT !.visiting = @ \cup {key}]))

\* The closure resolveComputed of computeDefinitions
resolveComputed(key, context, definitions, st) ==
    IF HasProperty(st.computedValues, key)
    THEN Evaluated(GetProperty(st.computedValues, key), st)
    ELSE ResolveDefinition(key, DefinitionIndex(definitions, key), context, definitions, st)

\* The func / op branch with its arguments evaluated (a is evaluateArgs' outcome)
ApplyToArgs(expression, isFunc, isOp, func, a) ==
    IF a.thrown THEN a
    ELSE IF isFunc /\ func.t = "string"
            /\ func.s \in {"normalize_time", "midpoint", "duration", "add_days"}
    THEN LET arg1 == IF Len(a.vs) >= 1 THEN a.vs[1] ELSE Undefined
             arg2 == IF Len(a.vs) >= 2 THEN a.vs[2] ELSE Undefined
         IN Evaluated(CASE func.s = "normalize_time" -> normalizeTime(arg1)
                        [] func.s = "midpoint" -> midpointTime(arg1, arg2)
                        [] func.s = "duration" -> durationMinutes(arg1, arg2)
                        [] OTHER -> addDaysToDate(arg1, arg2),
                      a.st)
    ELSE IF ~isOp THEN Evaluated(expression, a.st)
    ELSE Evaluated(applyArithmetic(GetProperty(expression, "op"), a.vs), a.st)

\* The var branch: value is what the variable reads in the live context
VariableResolved(variable, value, context, definitions, st) ==
    IF StartsWithComputed(variable) /\ value.t = "undefined"
    THEN resolveComputed(AfterComputed(variable), context, definitions, st)
    ELSE Evaluated(value, st)

\* context.computed is the resolver's live computedValues (st.computedValues)
evaluateComputeExpression(expression, context, definitions, st) ==
    IF ~IsObjectLike(expression) THEN Evaluated(expression, st)
    ELSE IF HasProperty(expression, "var")
    THEN (IF GetProperty(expression, "var").t # "string" THEN Throw(TypeError)
          ELSE VariableResolved(GetProperty(expression, "var").s,
                                resolveVariable(GetProperty(expression, "var").s,
                                                [context EXCEPT !.computed = st.computedValues]),
                                context, definitions, st))
    ELSE IF HasProperty(expression, "value")
    THEN Evaluated(GetProperty(expression, "value"), st)
    ELSE IF ~HasProperty(expression, "func") /\ ~HasProperty(expression, "op")
    THEN Evaluated(expression, st)
    ELSE IF GetProperty(expression, "args").t # "array" THEN Throw(TypeError)
    ELSE ApplyToArgs(expression, HasProperty(expression, "func"),
                     HasProperty(expression, "op"), GetProperty(expression, "func"),
                     evaluateArgs(GetProperty(expression, "args").a, 1,
                                  context, definitions, st))

RECURSIVE ResolveAll(_, _, _, _)
\* The loop's pass after definition i resolved with outcome r
ResolveNext(definitions, i, context, r) ==
    IF r.thrown THEN r ELSE ResolveAll(definitions, i + 1, context, r.st)

\* definitions.forEach(definition => resolveComputed(definition.key)) from i on
ResolveAll(definitions, i, context, st) ==
    IF i > Len(definitions) THEN [thrown |-> FALSE, st |-> st]
    ELSE ResolveNext(definitions, i, context,
                     resolveComputed(definitions[i].key, context, definitions, st))

\* Variant of CallerComputed: the returned map is the caller's own object
SharedComputed(context, outcome) ==
    IF outcome.thrown THEN context.computed ELSE outcome.v

\* The caller's context.computed once the call has ended with outcome:
\* computedValues is a copy ({ ...context.computed }) and the context handed to
\* the evaluation is another one, so no write reaches the caller's object
CallerComputed(context, outcome) == context.computed

\* The outcome of the loop as computeDefinitions returns it
ComputedOutcome(r) == IF r.thrown THEN r ELSE Ok(r.st.computedValues)

\* Variant of computeDefinitions: one memoisation map for all requests, seeded
\* with the values a request resolved before
SharedMemo(definitions, context) ==
    LET resolved == {r \in DOMAIN req : req[r].computedValues # EmptyObj}
        memo == IF resolved = {} THEN context.computed
                ELSE req[CHOOSE r \in resolved : TRUE].computedValues
    IN ComputedOutcome(ResolveAll(definitions, 1, context,
                                  [computedValues |-> memo, visiting |-> {}]))

\* Ok(the computedValues object), or the error a resolution threw
computeDefinitions(definitions, context) ==
    ComputedOutcome(ResolveAll(definitions, 1, context,
                               [computedValues |-> context.computed, visiting |-> {}]))

(***************************************************************************)
(* Answer validator (worker/src/utils/engine.ts)                           *)
(***************************************************************************)
\* parseOptionalJson(value): a stored JSON text decoded, null as undefined
parseOptionalJson(value) ==
    IF IsNullish(value) THEN Undefined
    ELSE IF value.t = "json" THEN value.text
    ELSE value

\* field.type.toLowerCase()
LowerCase(s) ==
    CASE s = "Number" -> "number"
      [] s = "Boolean" -> "boolean"
      [] OTHER -> s

\* value.length of a string
StringLength(s) ==
    CASE s = "" -> 0
      [] s = " " -> 1
      [] s \in {"A", "B"} -> 1
      [] s \in {"15", "18", "24"} -> 2
      [] s = "abc" -> 3
      [] OTHER -> 5

\* The message of the first issue of the field's schema on rawValue (the schema
\* buildFieldSchema builds, then safeParse), "" when the value passes.
\* options and validation are the field's decoded options_json and validation_json.
FieldIssue(field, options, validation, rawValue) ==
    LET type == LowerCase(field.type)
        limit(name) == IF validation.t = "undefined" THEN Undefined
                       ELSE GetProperty(validation, name)
        hasNumber(name) == limit(name).t = "number"
        isOption(v) == \E i \in DOMAIN options.a : StrictEquals(options.a[i], v, <<"literal">>, <<"literal">>)
    IN CASE type = "number" ->
                LET n == ToNumber(rawValue)
                IN IF n.t # "number" \/ "nan" \in DOMAIN n THEN "Expected a number"
                   ELSE IF hasNumber("min") /\ (IsFiniteNumber(n) /\ IsFiniteNumber(limit("min")))
                           /\ n.n < limit("min").n
                        THEN "Number must be greater than or equal to min"
                   ELSE IF hasNumber("max") /\ (IsFiniteNumber(n) /\ IsFiniteNumber(limit("max")))
                           /\ n.n > limit("max").n
                        THEN "Number must be less than or equal to max"
                   ELSE ""
         [] type = "boolean" ->
                IF rawValue.t = "boolean" THEN "" ELSE "Expected a boolean"
         [] type = "date" ->
                IF rawValue.t # "string" THEN "Expected string"
                ELSE IF ~IsFiniteNumber(DateParse(rawValue.s)) THEN "Invalid date format"
                ELSE ""
         [] type = "time" ->
                IF rawValue.t # "string" THEN "Expected string"
                ELSE IF TimeOfString(rawValue.s) = <<>> \/ Trim(rawValue.s) # rawValue.s
                     THEN "Invalid time format"
                ELSE ""
         [] type = "multi_select" ->
                IF rawValue.t # "array" THEN "Expected array"
                ELSE IF \E i \in DOMAIN rawValue.a : rawValue.a[i].t # "string"
                     THEN "Expected string"
                ELSE IF options.t = "array" /\ \E i \in DOMAIN rawValue.a : ~isOption(rawValue.a[i])
                     THEN "All selections must be valid options"
                ELSE ""
         [] OTHER ->
                IF rawValue.t # "string" THEN "Expected string"
                ELSE IF hasNumber("minLength") /\ StringLength(rawValue.s) < limit("minLength").n
                     THEN "String must contain at least minLength character(s)"
                ELSE IF hasNumber("maxLength") /\ StringLength(rawValue.s) > limit("maxLength").n
                     THEN "String must contain at most maxLength character(s)"
                ELSE IF type = "select" /\ options.t = "array" /\ ~isOption(rawValue)
                     THEN "Value must be one of the defined options"
                ELSE ""

\* rawValue === undefined || rawValue === null || rawValue === ''
IsAbsent(rawValue) == IsNullish(rawValue) \/ rawValue = Str("")

RECURSIVE CollectIssues(_, _, _)
\* fields.forEach(...) from field i on: the issues pushed, in field order
CollectIssues(fields, i, answers) ==
    IF i > Len(fields) THEN <<>>
    ELSE LET field == fields[i]
             required == Truthy(field.required)
             rawValue == GetProperty(answers, field.key)
             message == FieldIssue(field, parseOptionalJson(field.options_json),
                                   parseOptionalJson(field.validation_json), rawValue)
             own == IF ~required /\ IsAbsent(rawValue) THEN <<>>
                    ELSE IF required /\ IsAbsent(rawValue)
                    THEN <<[key |-> field.key, message |-> "Field is required"]>>
                    ELSE IF message # "" THEN <<[key |-> field.key, message |-> message]>>
                    ELSE <<>>
         IN own \o CollectIssues(fields, i + 1, answers)

\* Variant of validateAnswers: the first issue only
FirstIssueOnly(fields, answers) ==
    LET errors == CollectIssues(fields, 1, answers)
    IN [valid |-> Len(errors) = 0, errors |-> IF errors = <<>> THEN <<>> ELSE <<errors[1]>>]

validateAnswers(fields, answers) ==
    LET errors == CollectIssues(fields, 1, answers)
    IN [valid |-> Len(errors) = 0, errors |-> errors]

(***************************************************************************)
(* The relational store (migration 0002; FakeD1 of the handlers' test)     *)
(***************************************************************************)
TableNames == {"form_templates", "form_fields", "compute_definitions", "rule_sets",
               "form_submissions", "computed_values", "rule_evaluations",
               "participant_assignments", "schedule_plans", "audit_logs"}

\* The store after the migration: every table empty
EmptyTables == [n \in TableNames |-> IF n = "audit_logs" THEN EmptyBag ELSE <<>>]

\* INSERT: the row appended with the next id of its table (AUTOINCREMENT)
InsertRow(tbls, table, row) ==
    [tbls EXCEPT ![table] = Append(@, [id |-> Len(@) + 1] @@ row)]

\* Variant of LastRowId: an id one past the row's
LastRowIdPlusOne(tbls, table) == Len(tbls[table]) + 2

\* meta.last_row_id of the INSERT that InsertRow makes
LastRowId(tbls, table) == Len(tbls[table]) + 1

\* entityId?.toString(): the decimal text of a row id
DecimalText(n) == [decimal |-> n]

\* INSERT INTO audit_logs: one more copy of the row
InsertAudit(tbls, row) ==
    [tbls EXCEPT !["audit_logs"] = @ (+) SetToBag({row})]

\* logAudit: its audit_logs row (participantId "" is an absent one, a NULL column)
AuditRow(studyId, participantId, action, entityType, entityId, detail) ==
    [study_id |-> studyId, participant_id |-> participantId, action |-> action,
     entity_type |-> entityType, entity_id |-> DecimalText(entityId),
     detail_json |-> JsonStringify(detail), created_at |-> IsoString(now)]

(***************************************************************************)
(* Administrative handlers (worker/src/handlers/engine.ts): each inserts   *)
(* its row and then its audit record.  body is the parsed request body.    *)
(***************************************************************************)
handleCreateFormTemplate(studyId, body) ==
    LET version == Coalesce(body.version, Num(1))
        status == Coalesce(body.status, Str("draft"))
        id == LastRowId(tables, "form_templates")
        t1 == InsertRow(tables, "form_templates",
                        [study_id |-> studyId, name |-> body.name, version |-> version,
                         status |-> status.s, created_at |-> IsoString(now)])
    IN /\ tables' = InsertAudit(t1,
                        AuditRow(studyId, "", "form_template_created", "form_template", id,
                                 Obj([name |-> Str(body.name), version |-> version,
                                      status |-> status])))
       /\ UNCHANGED <<now, req, view, call>>

handleCreateFormField(studyId, formId, body) ==
    LET required == IF Truthy(body.required) THEN Num(1) ELSE Num(0)
        optionsJson == IF body.options.t # "undefined" THEN JsonStringify(body.options) ELSE Null
        validationJson == IF body.validation.t # "undefined" THEN JsonStringify(body.validation)
                          ELSE Null
        orderIndex == Coalesce(body.order_index, Num(0))
        id == LastRowId(tables, "form_fields")
        t1 == InsertRow(tables, "form_fields",
                        [form_template_id |-> formId, key |-> body.key, label |-> body.label,
                         type |-> body.type, required |-> required,
                         options_json |-> optionsJson, validation_json |-> validationJson,
                         order_index |-> orderIndex.n])
    IN /\ tables' = InsertAudit(t1,
                        AuditRow(studyId, "", "form_field_created", "form_field", id,
                                 Obj([form_template_id |-> Num(formId), key |-> Str(body.key),
                                      type |-> Str(body.type)])))
       /\ UNCHANGED <<now, req, view, call>>

handleCreateComputeDefinition(studyId, body) ==
    LET version == Coalesce(body.version, Num(1))
        status == Coalesce(body.status, Str("draft"))
        definitionJson == JsonStringify(body.definition)
        id == LastRowId(tables, "compute_definitions")
        t1 == InsertRow(tables, "compute_definitions",
                        [study_id |-> studyId, key |-> body.key, type |-> body.type,
                         definition_json |-> definitionJson, version |-> version,
                         status |-> status.s])
    IN /\ tables' = InsertAudit(t1,
                        AuditRow(studyId, "", "compute_definition_created",
                                 "compute_definition", id,
                                 Obj([key |-> Str(body.key), type |-> Str(body.type),
                                      version |-> version, status |-> status])))
       /\ UNCHANGED <<now, req, view, call>>

handleCreateRuleSet(studyId, body) ==
    LET version == Coalesce(body.version, Num(1))
        status == Coalesce(body.status, Str("draft"))
        expressionJson == JsonStringify(body.expression)
        id == LastRowId(tables, "rule_sets")
        t1 == InsertRow(tables, "rule_sets",
                        [study_id |-> studyId, rule_type |-> body.rule_type, name |-> body.name,
                         version |-> version, status |-> status.s,
                         expression_json |-> expressionJson, created_at |-> IsoString(now)])
    IN /\ tables' = InsertAudit(t1,
                        AuditRow(studyId, "", "rule_set_created", "rule_set", id,
                                 Obj([name |-> Str(body.name), rule_type |-> Str(body.rule_type),
                                      version |-> version, status |-> status])))
       /\ UNCHANGED <<now, req, view, call>>

(***************************************************************************)
(* Intake submit (worker/src/handlers/engine.ts): rule payloads            *)
(***************************************************************************)
\* resolveRuleExpression: [thrown, expression, assignment, plan]; an absent
\* assignment or plan is undefined.  Reading a property of a null payload throws.
resolveRuleExpression(ruleType, payload) ==
    LET get(k) == GetProperty(payload, k)
        none == Undefined
    IN IF payload.t = "null" THEN Throw(TypeError)
       ELSE IF ruleType = "eligibility"
       THEN [thrown |-> FALSE,
             expression |-> Coalesce(get("expression"), Coalesce(get("criteria"), payload)),
             assignment |-> none, plan |-> none]
       ELSE IF ruleType = "group_assignment"
       THEN LET expression == Coalesce(get("when"), Coalesce(get("expression"),
                                  Coalesce(get("criteria"), payload)))
                assignmentPayload == Coalesce(get("assignment"),
                                         Obj([key |-> get("group_key"),
                                              value |-> get("group_value")]))
            IN IF /\ Truthy(assignmentPayload)
                  /\ IsObjectLike(assignmentPayload)
                  /\ HasProperty(assignmentPayload, "key")
                  /\ HasProperty(assignmentPayload, "value")
               THEN [thrown |-> FALSE, expression |-> expression,
                     assignment |-> Obj([key |-> Str(StringOf(GetProperty(assignmentPayload, "key"))),
                                         value |-> Str(StringOf(GetProperty(assignmentPayload, "value")))]),
                     plan |-> none]
               ELSE [thrown |-> FALSE, expression |-> expression,
                     assignment |-> none, plan |-> none]
       ELSE [thrown |-> FALSE,
             expression |-> Coalesce(get("when"), Coalesce(get("expression"),
                                Coalesce(get("criteria"), payload))),
             assignment |-> none,
             plan |-> Coalesce(get("plan"), Coalesce(get("schedule"), payload))]

\* The lists after a rule evaluated to matched: its detail pushed on evaluations,
\* its assignment and its plan pushed when it matched.
\* acc is [evaluations, assignments, schedulePlans].
RuleOutcome(rule, resolved, matched, acc) ==
    LET withAssignment == matched /\ rule.rule_type = "group_assignment"
                            /\ Truthy(resolved.assignment)
        withPlan == matched /\ rule.rule_type = "scheduling"
                            /\ resolved.plan.t # "undefined"
        detail == [rule_set_id |-> Num(rule.id),
                   rule_type |-> Str(rule.rule_type),
                   name |-> Str(rule.name),
                   matched |-> Bool(matched)]
                  @@ (IF withAssignment THEN [assignment |-> resolved.assignment] ELSE <<>>)
                  @@ (IF withPlan THEN [plan |-> resolved.plan] ELSE <<>>)
    IN [thrown |-> FALSE,
        evaluations |-> Append(acc.evaluations, Obj(detail)),
        assignments |->
            IF withAssignment
            THEN Append(acc.assignments,
                        [rule_set_id |-> rule.id,
                         group_key |-> resolved.assignment.o.key.s,
                         group_value |-> resolved.assignment.o.value.s])
            ELSE acc.assignments,
        schedulePlans |->
            IF withPlan
            THEN Append(acc.schedulePlans, [rule_set_id |-> rule.id, plan |-> resolved.plan])
            ELSE acc.schedulePlans]

\* The pass once the evaluator returned result
RuleMatched(rule, resolved, result, acc) ==
    IF result.thrown THEN result ELSE RuleOutcome(rule, resolved, result.v, acc)

\* The pass once resolveRuleExpression returned resolved:
\* matched = expression ? evaluateExpression(expression, ruleContext) : false
RuleResolved(rule, ruleContext, resolved, acc) ==
    IF resolved.thrown THEN resolved
    ELSE RuleMatched(rule, resolved,
                     IF Truthy(resolved.expression)
                     THEN evaluateExpression(resolved.expression, ruleContext)
                     ELSE Ok(FALSE),
                     acc)

\* One pass of the loop over the rules, up to its store call: the lists with
\* the rule's results pushed, or the error the payload or the evaluator threw
EvaluateRule(rule, ruleContext, acc) ==
    RuleResolved(rule, ruleContext,
                 resolveRuleExpression(rule.rule_type,
                                       parseJsonValue(rule.expression_json, EmptyObj)),
                 acc)

(***************************************************************************)
(* Intake submit (worker/src/handlers/engine.ts): the handler              *)
(*                                                                         *)
(* A request's position is the store call it is about to issue; one action *)
(* is one store call and the synchronous code up to the next one.          *)
(***************************************************************************)
\* No direct call is under way
NoCall == [fn |-> "none"]

NoResponse == [status |-> 0]

IdleRequest ==
    [pc |-> "idle", studyId |-> "", participantId |-> "", body |-> Undefined,
     submissionTime |-> 0, submissionId |-> 0, computeDefinitionsList |-> <<>>,
     computedValues |-> EmptyObj, metadata |-> EmptyObj, rules |-> <<>>,
     evaluations |-> <<>>, assignments |-> <<>>, schedulePlans |-> <<>>,
     index |-> 0, response |-> NoResponse,
     writes |-> <<>>,       \* history: the tables this request wrote, in order
     valid |-> "unknown",   \* history: what validateAnswers reported ("valid", "invalid")
     failed |-> "none"]     \* history: the store call that rejected ("store", "audit")

\* jsonResponse(payload, status)
jsonResponse(payload, status) == [status |-> status] @@ payload

\* The handler's catch: every error becomes a 400 with the error's message
CatchResponse(error) == jsonResponse([error |-> error], 400)

\* intakeSubmitSchema.parse: whether the body has an integer form_template_id, a
\* record of answers and, when present, a record of metadata
ValidIntakeBody(body) ==
    /\ body.t = "object"
    /\ IsFiniteNumber(GetProperty(body, "form_template_id"))
    /\ "d" \notin DOMAIN GetProperty(body, "form_template_id")
    /\ "answers" \in DOMAIN body.o /\ body.o.answers.t = "object"
    /\ ("metadata" \in DOMAIN body.o => body.o.metadata.t \in {"undefined", "object"})

\* Variant of TemplateFound: the template of that id, of whichever study
TemplateFoundById(tbls, formTemplateId, studyId) ==
    \E i \in DOMAIN tbls.form_templates : tbls.form_templates[i].id = formTemplateId

\* SELECT * FROM form_templates WHERE id = ? AND study_id = ?
TemplateFound(tbls, formTemplateId, studyId) ==
    \E i \in DOMAIN tbls.form_templates :
        /\ tbls.form_templates[i].id = formTemplateId
        /\ tbls.form_templates[i].study_id = studyId

\* rows in ascending order_index, rows of one order_index in id order
SortByOrderIndex(rows) ==
    LET Before(i, j) == \/ rows[i].order_index < rows[j].order_index
                        \/ (rows[i].order_index = rows[j].order_index /\ i < j)
        rank(i) == Cardinality({j \in DOMAIN rows : Before(j, i)}) + 1
    IN [k \in DOMAIN rows |-> rows[CHOOSE i \in DOMAIN rows : rank(i) = k]]

\* SELECT ... FROM form_fields WHERE form_template_id = ? ORDER BY order_index ASC
FieldsOf(tbls, formTemplateId) ==
    SortByOrderIndex(SelectSeq(tbls.form_fields,
                               LAMBDA row : row.form_template_id = formTemplateId))

\* Variants of AfterValidation: every request rejected; every request let through
\* to the insert; the audit record written first
RejectRegardless(validation) ==
    [pc |-> "done",
     response |-> jsonResponse([error |-> [text |-> "Validation failed"],
                                errors |-> validation.errors], 400)]

ProceedRegardless(validation) == [pc |-> "insert_submission", response |-> NoResponse]

AuditBeforeSubmission(validation) ==
    IF ~validation.valid
    THEN [pc |-> "done",
          response |-> jsonResponse([error |-> [text |-> "Validation failed"],
                                     errors |-> validation.errors], 400)]
    ELSE [pc |-> "audit", response |-> NoResponse]

\* What follows validation: the 400 with the issues, or the submission insert
AfterValidation(validation) ==
    IF ~validation.valid
    THEN [pc |-> "done",
          response |-> jsonResponse([error |-> [text |-> "Validation failed"],
                                     errors |-> validation.errors], 400)]
    ELSE [pc |-> "insert_submission", response |-> NoResponse]

\* The form_submissions row of a request
SubmissionRow(q) ==
    [study_id |-> q.studyId, participant_id |-> q.participantId,
     form_template_id |-> q.body.o.form_template_id.n,
     answers_json |-> JsonStringify(q.body.o.answers),
     submitted_at |-> IsoString(q.submissionTime)]

\* SELECT ... FROM compute_definitions WHERE study_id = ? AND status = 'published'
PublishedComputeRows(tbls, studyId) ==
    SelectSeq(tbls.compute_definitions,
              LAMBDA row : row.study_id = studyId /\ row.status = "published")

\* computeRows.map(row => ({key, type, definition: parseJsonValue(...)}))
ComputeDefinitionsList(computeRows) ==
    [i \in DOMAIN computeRows |->
        [key |-> computeRows[i].key, type |-> computeRows[i].type,
         definition |-> parseJsonValue(computeRows[i].definition_json, Null)]]

\* Variant of Spread: a key of both keeps the value of the first
SpreadUnder(a, b) ==
    Obj([k \in DOMAIN a.o \cup DOMAIN b.o |-> IF k \in DOMAIN a.o THEN a.o[k] ELSE b.o[k]])

\* { ...a, ...b } for two objects
Spread(a, b) ==
    Obj([k \in DOMAIN a.o \cup DOMAIN b.o |-> IF k \in DOMAIN b.o THEN b.o[k] ELSE a.o[k]])

\* The metadata of the evaluation context: the system fields, then the body's
TimeValue(time) == Str(IsoString(time))

Metadata(q, submissionId) ==
    Spread(Obj([study_id |-> Str(q.studyId),
                participant_id |-> Str(q.participantId),
                form_template_id |-> q.body.o.form_template_id,
                submission_id |-> Num(submissionId),
                submitted_at |-> TimeValue(q.submissionTime)]),
           IF "metadata" \in DOMAIN q.body.o
           THEN Coalesce(q.body.o.metadata, EmptyObj) ELSE EmptyObj)

\* The computed_values row of one definition
ComputedValueRow(q, definition) ==
    [submission_id |-> q.submissionId, key |-> definition.key,
     value_json |-> JsonStringify(GetProperty(q.computedValues, definition.key)),
     computed_at |-> IsoString(q.submissionTime)]

\* Variant of PublishedRuleRows: the study's rule sets of every status
RuleRowsOfStudy(tbls, studyId) ==
    SelectSeq(tbls.rule_sets, LAMBDA row : row.study_id = studyId)

\* SELECT ... FROM rule_sets WHERE study_id = ? AND status = 'published'
PublishedRuleRows(tbls, studyId) ==
    SelectSeq(tbls.rule_sets,
              LAMBDA row : row.study_id = studyId /\ row.status = "published")

\* Variant of RuleEvaluationRow: result_bool 1 whatever the rule evaluated to
RuleEvaluationRowMatched(q, rule, detail) ==
    [submission_id |-> q.submissionId, rule_set_id |-> rule.id,
     result_bool |-> 1,
     result_json |-> JsonStringify(detail), evaluated_at |-> IsoString(q.submissionTime)]

\* The rule_evaluations row of the rule just evaluated (the last detail pushed)
RuleEvaluationRow(q, rule, detail) ==
    [submission_id |-> q.submissionId, rule_set_id |-> rule.id,
     result_bool |-> IF detail.o.matched.b THEN 1 ELSE 0,
     result_json |-> JsonStringify(detail), evaluated_at |-> IsoString(q.submissionTime)]

AssignmentRow(q, assignment) ==
    [participant_id |-> q.participantId, study_id |-> q.studyId,
     group_key |-> assignment.group_key, group_value |-> assignment.group_value,
     assigned_at |-> IsoString(q.submissionTime)]

\* Variant of SchedulePlanPayload: the first matched plan only
FirstPlanOnly(schedulePlans) ==
    IF Len(schedulePlans) > 0
    THEN Obj([plans |-> Arr(<<Obj([rule_set_id |-> Num(schedulePlans[1].rule_set_id),
                                   plan |-> schedulePlans[1].plan])>>)])
    ELSE Null

\* schedulePlanPayload: { plans: schedulePlans }, or null for no plan
SchedulePlanPayload(schedulePlans) ==
    IF Len(schedulePlans) > 0
    THEN Obj([plans |-> Arr([i \in DOMAIN schedulePlans |->
                                Obj([rule_set_id |-> Num(schedulePlans[i].rule_set_id),
                                     plan |-> schedulePlans[i].plan])])])
    ELSE Null

SchedulePlanRow(q) ==
    [participant_id |-> q.participantId, study_id |-> q.studyId,
     plan_json |-> JsonStringify(SchedulePlanPayload(q.schedulePlans)),
     created_at |-> IsoString(q.submissionTime)]

IntakeAuditRow(q) ==
    AuditRow(q.studyId, q.participantId, "intake_submitted", "form_submission",
             q.submissionId,
             Obj([form_template_id |-> q.body.o.form_template_id,
                  computed_keys |-> Arr([i \in DOMAIN q.computeDefinitionsList |->
                                            Str(q.computeDefinitionsList[i].key)]),
                  rule_count |-> Num(Len(q.evaluations))]))

\* The 201 envelope, as the client decodes it
SuccessResponse(q) ==
    jsonResponse(
        [submission |-> [id |-> q.submissionId, study_id |-> q.studyId,
                         participant_id |-> q.participantId,
                         form_template_id |-> q.body.o.form_template_id.n,
                         submitted_at |-> IsoString(q.submissionTime)],
         answers |-> JsonValue(q.body.o.answers),
         computed |-> JsonValue(q.computedValues),
         rule_evaluations |-> [i \in DOMAIN q.evaluations |-> JsonValue(q.evaluations[i])],
         assignments |-> q.assignments,
         schedule_plan |-> JsonValue(SchedulePlanPayload(q.schedulePlans))],
        201)

\* The position after the loop over the rules, and after the assignments
AfterAssignments(q) == IF Len(q.schedulePlans) > 0 THEN "insert_plan" ELSE "audit"
AfterRules(q) == IF Len(q.assignments) > 0 THEN "insert_assignment" ELSE AfterAssignments(q)

\* The request with the outcome step of the loop's pass over rule i merged in:
\* the pass's lists and the position of its insert, or the catch's response
RulePassed(q, i, step) ==
    IF step.thrown
    THEN [q EXCEPT !.pc = "done", !.response = CatchResponse(step.error)]
    ELSE [q EXCEPT !.pc = "insert_evaluation", !.index = i,
                   !.evaluations = step.evaluations,
                   !.assignments = step.assignments,
                   !.schedulePlans = step.schedulePlans]

WithRuleEvaluated(q, i) ==
    RulePassed(q, i,
               EvaluateRule(q.rules[i],
                            [answers |-> q.body.o.answers, computed |-> q.computedValues,
                             metadata |-> q.metadata],
                            [evaluations |-> q.evaluations, assignments |-> q.assignments,
                             schedulePlans |-> q.schedulePlans]))

\* The request arrives: parseBody, then submissionTime = new Date()
ReceiveIntake(r, studyId, participantId, body, time) ==
    /\ req[r].pc = "idle"
    /\ \A o \in DOMAIN req : o < r => req[o].pc # "idle"
    /\ time >= now
    /\ now' = time
    /\ req' = [req EXCEPT ![r] =
                IF ValidIntakeBody(body)
                THEN [@ EXCEPT !.pc = "select_template", !.studyId = studyId,
                               !.participantId = participantId, !.body = body,
                               !.submissionTime = time]
                ELSE [@ EXCEPT !.pc = "done", !.studyId = studyId,
                               !.participantId = participantId, !.body = body,
                               !.response = CatchResponse([text |-> "ZodError"])]]
    /\ UNCHANGED <<tables, view, call>>

SelectTemplate(r) ==
    /\ req[r].pc = "select_template"
    /\ req' = [req EXCEPT ![r] =
                IF TemplateFound(tables, req[r].body.o.form_template_id.n, req[r].studyId)
                THEN [@ EXCEPT !.pc = "select_fields"]
                ELSE [@ EXCEPT !.pc = "done",
                               !.response = jsonResponse(
                                    [error |-> [text |-> "Form template not found"]], 404)]]
    /\ UNCHANGED <<tables, now, view, call>>

SelectFields(r) ==
    /\ req[r].pc = "select_fields"
    /\ LET fields == FieldsOf(tables, req[r].body.o.form_template_id.n)
           next == AfterValidation(validateAnswers(fields, req[r].body.o.answers))
       IN req' = [req EXCEPT ![r] =
                    [@ EXCEPT !.pc = next.pc, !.response = next.response,
                              !.valid = IF validateAnswers(fields, req[r].body.o.answers).valid
                                        THEN "valid" ELSE "invalid"]]
    /\ UNCHANGED <<tables, now, view, call>>

InsertSubmission(r) ==
    /\ req[r].pc = "insert_submission"
    /\ tables' = InsertRow(tables, "form_submissions", SubmissionRow(req[r]))
    /\ req' = [req EXCEPT ![r] =
                [@ EXCEPT !.pc = "select_compute",
                          !.submissionId = LastRowId(tables, "form_submissions"),
                          !.writes = Append(@, "form_submissions")]]
    /\ UNCHANGED <<now, view, call>>

SelectComputeDefinitions(r) ==
    /\ req[r].pc = "select_compute"
    /\ LET q == req[r]
           list == ComputeDefinitionsList(PublishedComputeRows(tables, q.studyId))
           metadata == Metadata(q, q.submissionId)
           computed == computeDefinitions(list, [answers |-> q.body.o.answers,
                                                 computed |-> EmptyObj,
                                                 metadata |-> metadata])
       IN req' = [req EXCEPT ![r] =
                    IF computed.thrown
                    THEN [@ EXCEPT !.pc = "done", !.computeDefinitionsList = list,
                                   !.metadata = metadata,
                                   !.response = CatchResponse(computed.error)]
                    ELSE [@ EXCEPT !.pc = IF Len(list) > 0 THEN "insert_computed"
                                          ELSE "select_rules",
                                   !.index = 1,
                                   !.computeDefinitionsList = list,
                                   !.metadata = metadata,
                                   !.computedValues = computed.v]]
    /\ UNCHANGED <<tables, now, view, call>>

InsertComputedValue(r) ==
    /\ req[r].pc = "insert_computed"
    /\ LET q == req[r]
           definition == q.computeDefinitionsList[q.index]
       IN /\ tables' = InsertRow(tables, "computed_values", ComputedValueRow(q, definition))
          /\ req' = [req EXCEPT ![r] =
                        [@ EXCEPT !.pc = IF q.index < Len(q.computeDefinitionsList)
                                         THEN "insert_computed" ELSE "select_rules",
                                  !.index = q.index + 1,
                                  !.writes = Append(@, "computed_values")]]
    /\ UNCHANGED <<now, view, call>>

SelectRuleSets(r) ==
    /\ req[r].pc = "select_rules"
    /\ LET q == [req[r] EXCEPT !.rules = PublishedRuleRows(tables, req[r].studyId)]
       IN req' = [req EXCEPT ![r] =
                    IF Len(q.rules) = 0 THEN [q EXCEPT !.pc = AfterRules(q)]
                    ELSE WithRuleEvaluated(q, 1)]
    /\ UNCHANGED <<tables, now, view, call>>

InsertRuleEvaluation(r) ==
    /\ req[r].pc = "insert_evaluation"
    /\ LET q == req[r]
           written == [q EXCEPT !.writes = Append(@, "rule_evaluations")]
       IN /\ tables' = InsertRow(tables, "rule_evaluations",
                                 RuleEvaluationRow(q, q.rules[q.index], q.evaluations[q.index]))
          /\ req' = [req EXCEPT ![r] =
                        IF q.index < Len(q.rules) THEN WithRuleEvaluated(written, q.index + 1)
                        ELSE [written EXCEPT !.pc = AfterRules(q), !.index = 1]]
    /\ UNCHANGED <<now, view, call>>

InsertAssignment(r) ==
    /\ req[r].pc = "insert_assignment"
    /\ LET q == req[r]
       IN /\ tables' = InsertRow(tables, "participant_assignments",
                                 AssignmentRow(q, q.assignments[q.index]))
          /\ req' = [req EXCEPT ![r] =
                        [@ EXCEPT !.pc = IF q.index < Len(q.assignments)
                                         THEN "insert_assignment" ELSE AfterAssignments(q),
                                  !.index = q.index + 1,
                                  !.writes = Append(@, "participant_assignments")]]
    /\ UNCHANGED <<now, view, call>>

InsertSchedulePlan(r) ==
    /\ req[r].pc = "insert_plan"
    /\ tables' = InsertRow(tables, "schedule_plans", SchedulePlanRow(req[r]))
    /\ req' = [req EXCEPT ![r] = [@ EXCEPT !.pc = "audit",
                                           !.writes = Append(@, "schedule_plans")]]
    /\ UNCHANGED <<now, view, call>>

\* logAudit succeeds, and the handler answers 201
WriteAudit(r) ==
    /\ req[r].pc = "audit"
    /\ tables' = InsertAudit(tables, IntakeAuditRow(req[r]))
    /\ req' = [req EXCEPT ![r] = [@ EXCEPT !.pc = "done",
                                           !.response = SuccessResponse(req[r]),
                                           !.writes = Append(@, "audit_logs")]]
    /\ UNCHANGED <<now, view, call>>

\* The positions at which a request is about to issue a store call other than
\* the audit insert
StoreCallPositions == {"select_template", "select_fields", "insert_submission",
                       "select_compute", "insert_computed", "select_rules",
                       "insert_evaluation", "insert_assignment", "insert_plan"}

\* The store call a request is about to issue rejects: the handler's catch answers
StoreCallFails(r) ==
    /\ req[r].pc \in StoreCallPositions
    /\ req' = [req EXCEPT ![r] = [@ EXCEPT !.pc = "done", !.failed = "store",
                                           !.response = CatchResponse([text |-> "D1_ERROR"])]]
    /\ UNCHANGED <<tables, now, view, call>>

\* The audit insert rejects: logAudit does not catch, so the handler's catch answers
AuditFails(r) ==
    /\ req[r].pc = "audit"
    /\ req' = [req EXCEPT ![r] = [@ EXCEPT !.pc = "done", !.failed = "audit",
                                           !.response = CatchResponse([text |-> "D1_ERROR"])]]
    /\ UNCHANGED <<tables, now, view, call>>

(***************************************************************************)
(* handleIntakeResult (worker/src/handlers/engine.ts): five reads, the      *)
(* audit insert and the 200 envelope.  The handler has no catch.  A query   *)
(* ordered by a timestamp column leaves the order of rows with equal        *)
(* timestamps to the store: each such order is a possible outcome.          *)
(***************************************************************************)
IdleView ==
    [pc |-> "idle", studyId |-> "", participantId |-> "", submissionId |-> 0,
     computed |-> EmptyObj, ruleEvaluations |-> <<>>, assignments |-> <<>>,
     schedulePlan |-> Null, settled |-> {}, response |-> NoResponse]

\* The place of a stored timestamp in the order of the TEXT column
TimestampRank(text) == DateParse(text).n

\* The ids of the rows of a table that belong to a participant of a study
IdsOfPair(tbls, table, studyId, participantId) ==
    {i \in DOMAIN tbls[table] : /\ tbls[table][i].study_id = studyId
                                /\ tbls[table][i].participant_id = participantId}

\* ... WHERE study_id = ? AND participant_id = ? ORDER BY <column> DESC LIMIT 1:
\* the ids of the rows the query may return, those no other row of the pair is
\* later than
LatestIds(tbls, table, column, studyId, participantId) ==
    {i \in IdsOfPair(tbls, table, studyId, participantId) :
        \A j \in IdsOfPair(tbls, table, studyId, participantId) :
            TimestampRank(tbls[table][j][column]) <= TimestampRank(tbls[table][i][column])}

\* The ids of a submission's rows of a table, ORDER BY id ASC
IdsOfSubmission(tbls, table, submissionId) ==
    SelectSeq([i \in DOMAIN tbls[table] |-> i],
              LAMBDA i : tbls[table][i].submission_id = submissionId)

\* computedRows.reduce((acc, row) => { acc[row.key] = parseJsonValue(row.value_json, null) }, {})
RECURSIVE ReduceComputedRows(_, _, _, _)
ReduceComputedRows(rows, ids, i, acc) ==
    IF i > Len(ids) THEN acc
    ELSE ReduceComputedRows(rows, ids, i + 1,
            SetProperty(acc, rows[ids[i]].key, parseJsonValue(rows[ids[i]].value_json, Null)))

\* ruleRows.map(row => parseJsonValue(row.result_json, { rule_set_id: row.rule_set_id }))
RuleEvaluationsOf(tbls, submissionId) ==
    LET ids == IdsOfSubmission(tbls, "rule_evaluations", submissionId)
    IN [n \in DOMAIN ids |->
            parseJsonValue(tbls.rule_evaluations[ids[n]].result_json,
                           Obj([rule_set_id |-> Num(tbls.rule_evaluations[ids[n]].rule_set_id)]))]

\* The orders in which ... ORDER BY assigned_at DESC may return the pair's assignments
AssignmentOrders(tbls, studyId, participantId) ==
    LET ids == IdsOfPair(tbls, "participant_assignments", studyId, participantId)
        rank(i) == TimestampRank(tbls.participant_assignments[i].assigned_at)
    IN {order \in [1..Cardinality(ids) -> ids] :
            /\ \A m, n \in DOMAIN order : m # n => order[m] # order[n]
            /\ \A m, n \in DOMAIN order : m < n => rank(order[m]) >= rank(order[n])}

\* The selected columns of the assignments, in the order returned
AssignmentsOf(tbls, order) ==
    [n \in DOMAIN order |->
        [group_key |-> tbls.participant_assignments[order[n]].group_key,
         group_value |-> tbls.participant_assignments[order[n]].group_value,
         assigned_at |-> tbls.participant_assignments[order[n]].assigned_at]]

ResultAuditRow(q) ==
    AuditRow(q.studyId, q.participantId, "intake_result_viewed", "form_submission",
             q.submissionId, Obj([submission_id |-> Num(q.submissionId)]))

\* The 200 envelope, as the client decodes it
ResultResponse(tbls, q) ==
    jsonResponse(
        [submission |-> [id |-> q.submissionId,
                         study_id |-> tbls.form_submissions[q.submissionId].study_id,
                         participant_id |-> tbls.form_submissions[q.submissionId].participant_id,
                         form_template_id |-> tbls.form_submissions[q.submissionId].form_template_id,
                         submitted_at |-> tbls.form_submissions[q.submissionId].submitted_at],
         answers |-> parseJsonValue(tbls.form_submissions[q.submissionId].answers_json, EmptyObj),
         computed |-> JsonValue(q.computed),
         rule_evaluations |-> [i \in DOMAIN q.ruleEvaluations |-> JsonValue(q.ruleEvaluations[i])],
         assignments |-> q.assignments,
         schedule_plan |-> JsonValue(q.schedulePlan)],
        200)

\* The request arrives
ReceiveResult(v, studyId, participantId) ==
    /\ view[v].pc = "idle"
    /\ view' = [view EXCEPT ![v] =
                    [@ EXCEPT !.pc = "select_submission", !.studyId = studyId,
                              !.participantId = participantId,
                              !.settled = {r \in DOMAIN req : req[r].pc = "done"}]]
    /\ UNCHANGED <<tables, now, req, call>>

ResultSelectSubmission(v) ==
    /\ view[v].pc = "select_submission"
    /\ LET ids == LatestIds(tables, "form_submissions", "submitted_at",
                            view[v].studyId, view[v].participantId)
       IN \/ /\ ids = {}
             /\ view' = [view EXCEPT ![v] =
                            [@ EXCEPT !.pc = "done",
                                      !.response = jsonResponse(
                                          [error |-> [text |-> "No intake submission found"]],
                                          404)]]
          \/ \E id \in ids :
                view' = [view EXCEPT ![v] =
                            [@ EXCEPT !.pc = "select_computed", !.submissionId = id]]
    /\ UNCHANGED <<tables, now, req, call>>

ResultSelectComputedValues(v) ==
    /\ view[v].pc = "select_computed"
    /\ view' = [view EXCEPT ![v] =
                    [@ EXCEPT !.pc = "select_evaluations",
                              !.computed = ReduceComputedRows(
                                    tables.computed_values,
                                    IdsOfSubmission(tables, "computed_values",
                                                    view[v].submissionId),
                                    1, EmptyObj)]]
    /\ UNCHANGED <<tables, now, req, call>>

ResultSelectRuleEvaluations(v) ==
    /\ view[v].pc = "select_evaluations"
    /\ view' = [view EXCEPT ![v] =
                    [@ EXCEPT !.pc = "select_assignments",
                              !.ruleEvaluations =
                                    RuleEvaluationsOf(tables, view[v].submissionId)]]
    /\ UNCHANGED <<tables, now, req, call>>

ResultSelectAssignments(v) ==
    /\ view[v].pc = "select_assignments"
    /\ \E order \in AssignmentOrders(tables, view[v].studyId, view[v].participantId) :
            view' = [view EXCEPT ![v] =
                        [@ EXCEPT !.pc = "select_plan",
                                  !.assignments = AssignmentsOf(tables, order)]]
    /\ UNCHANGED <<tables, now, req, call>>

\* Variant of ResultSelectSchedulePlan: the plan written with the submission
\* read (the row created at the submission's submitted_at), or null for none
ResultSelectPlanOfSubmission(v) ==
    /\ view[v].pc = "select_plan"
    /\ LET ids == {i \in IdsOfPair(tables, "schedule_plans", view[v].studyId,
                                   view[v].participantId) :
                        tables.schedule_plans[i].created_at
                            = tables.form_submissions[view[v].submissionId].submitted_at}
       IN \/ /\ ids = {}
             /\ view' = [view EXCEPT ![v] = [@ EXCEPT !.pc = "audit", !.schedulePlan = Null]]
          \/ \E id \in ids :
                view' = [view EXCEPT ![v] =
                            [@ EXCEPT !.pc = "audit",
                                      !.schedulePlan =
                                            parseJsonValue(tables.schedule_plans[id].plan_json,
                                                           Null)]]
    /\ UNCHANGED <<tables, now, req, call>>

ResultSelectSchedulePlan(v) ==
    /\ view[v].pc = "select_plan"
    /\ LET ids == LatestIds(tables, "schedule_plans", "created_at",
                            view[v].studyId, view[v].participantId)
       IN \/ /\ ids = {}
             /\ view' = [view EXCEPT ![v] = [@ EXCEPT !.pc = "audit", !.schedulePlan = Null]]
          \/ \E id \in ids :
                view' = [view EXCEPT ![v] =
                            [@ EXCEPT !.pc = "audit",
                                      !.schedulePlan =
                                            parseJsonValue(tables.schedule_plans[id].plan_json,
                                                           Null)]]
    /\ UNCHANGED <<tables, now, req, call>>

\* logAudit, then the response
ResultWriteAudit(v) ==
    /\ view[v].pc = "audit"
    /\ tables' = InsertAudit(tables, ResultAuditRow(view[v]))
    /\ view' = [view EXCEPT ![v] =
                    [@ EXCEPT !.pc = "done", !.response = ResultResponse(tables, view[v])]]
    /\ UNCHANGED <<now, req, call>>

(***************************************************************************)
(* The requests the model issues                                           *)
(***************************************************************************)
MaxReq == 1          \* intake requests, one at a time
MaxConcurrent == 2   \* intake requests in flight together
MaxLean == 1         \* compute_definitions rows, and rule_sets rows, under concurrent requests
MaxTemplates == 1    \* form_templates rows
MaxFields == 1       \* form_fields rows
MaxDefs == 2         \* compute_definitions rows
MaxRules == 2        \* rule_sets rows
MaxViews == 1        \* intake-result requests
MaxClock == 2        \* clock readings
MaxChildren == 2     \* children of a logical group
MaxArgs == 2         \* arguments of an arithmetic operator
MaxListed == 3       \* fields of a validated list
MaxOrdered == 3      \* definitions of a reordered list

Study == "S1"
Participant == "P1"

Var(path) == Obj([var |-> Str(path)])
Compare(op, left, right) == Obj([op |-> Str(op), left |-> left, right |-> right])
Apply(op, args) == Obj([op |-> Str(op), args |-> Arr(args)])

TemplateBodies ==
    {[name |-> "Intake", version |-> Undefined, status |-> Str("published")]}

\* a required number field "age" of at least 18
FieldBodies ==
    {[key |-> "age", label |-> "Age", type |-> "number", required |-> Bool(TRUE),
      options |-> Undefined, validation |-> Obj([min |-> Num(18)]),
      order_index |-> Undefined]}

ComputeBody(key, definition) ==
    [key |-> key, type |-> "number", definition |-> definition,
     version |-> Undefined, status |-> Str("published")]

\* a := computed.b + 1, b := computed.a + 1 (a cycle when both are there),
\* a := computed.a (a self-reference)
ComputeBodies ==
    {ComputeBody("a", Apply("add", <<Var("computed.b"), Num(1)>>)),
     ComputeBody("b", Apply("add", <<Var("computed.a"), Num(1)>>)),
     ComputeBody("a", Var("computed.a"))}

RuleBody(ruleType, name, expression) ==
    [rule_type |-> ruleType, name |-> name, expression |-> expression,
     version |-> Undefined, status |-> Str("published")]

Adult == Compare(">=", Var("answers.age"), Num(18))
Over21 == Compare(">=", Var("answers.age"), Num(21))

RuleBodies ==
    {RuleBody("eligibility", "adult", Obj([expression |-> Adult])),
     RuleBody("group_assignment", "arm",
              Obj([when |-> Over21,
                   assignment |-> Obj([key |-> Str("arm"), value |-> Str("A")])])),
     RuleBody("scheduling", "visit",
              Obj([when |-> Over21, plan |-> Obj([visits |-> Num(2)])]))}

IntakeBody(answers) == Obj([form_template_id |-> Num(1), answers |-> Obj(answers)])

IntakeBodies ==
    {IntakeBody([age |-> Num(15)]), IntakeBody([age |-> Num(18)]),
     IntakeBody([age |-> Num(24)])}

Requests == 1..MaxReq

(***************************************************************************)
(* The system                                                              *)
(***************************************************************************)
Init ==
    /\ tables = EmptyTables
    /\ now = 1
    /\ req = [r \in Requests |-> IdleRequest]
    /\ view = <<>>
    /\ call = NoCall

CreateFormTemplate ==
    /\ Len(tables.form_templates) < MaxTemplates
    /\ \E body \in TemplateBodies : handleCreateFormTemplate(Study, body)

CreateFormField ==
    /\ Len(tables.form_fields) < MaxFields
    /\ \E body \in FieldBodies : handleCreateFormField(Study, 1, body)

CreateComputeDefinition ==
    /\ Len(tables.compute_definitions) < MaxDefs
    /\ \E body \in ComputeBodies : handleCreateComputeDefinition(Study, body)

CreateRuleSet ==
    /\ Len(tables.rule_sets) < MaxRules
    /\ \E body \in RuleBodies : handleCreateRuleSet(Study, body)

SubmitIntake ==
    \E r \in DOMAIN req, body \in IntakeBodies : ReceiveIntake(r, Study, Participant, body, now)

IntakeStep(r) ==
    \/ SelectTemplate(r)
    \/ SelectFields(r)
    \/ InsertSubmission(r)
    \/ SelectComputeDefinitions(r)
    \/ InsertComputedValue(r)
    \/ SelectRuleSets(r)
    \/ InsertRuleEvaluation(r)
    \/ InsertAssignment(r)
    \/ InsertSchedulePlan(r)
    \/ WriteAudit(r)

Next ==
    \/ CreateFormTemplate
    \/ CreateFormField
    \/ CreateComputeDefinition
    \/ CreateRuleSet
    \/ SubmitIntake
    \/ \E r \in Requests : IntakeStep(r)

Spec == Init /\ [][Next]_vars

(***************************************************************************)
(* Concurrent requests: two intakes in flight over a store of at most one  *)
(* compute definition and one rule set                                     *)
(***************************************************************************)
ConcurrentInit ==
    /\ tables = EmptyTables
    /\ now = 1
    /\ req = [r \in 1..MaxConcurrent |-> IdleRequest]
    /\ view = <<>>
    /\ call = NoCall

LeanComputeBodies == {ComputeBody("a", Apply("add", <<Var("answers.age"), Num(1)>>))}

LeanIntakeBodies == {IntakeBody([age |-> Num(15)]), IntakeBody([age |-> Num(24)])}

CreateLeanComputeDefinition ==
    /\ Len(tables.compute_definitions) < MaxLean
    /\ \E body \in LeanComputeBodies : handleCreateComputeDefinition(Study, body)

CreateLeanRuleSet ==
    /\ Len(tables.rule_sets) < MaxLean
    /\ \E body \in RuleBodies : handleCreateRuleSet(Study, body)

SubmitConcurrentIntake ==
    \E r \in DOMAIN req, body \in LeanIntakeBodies :
        ReceiveIntake(r, Study, Participant, body, now)

ConcurrentNext ==
    \/ CreateFormTemplate
    \/ CreateFormField
    \/ CreateLeanComputeDefinition
    \/ CreateLeanRuleSet
    \/ SubmitConcurrentIntake
    \/ \E r \in 1..MaxConcurrent : IntakeStep(r)

ConcurrentSpec == ConcurrentInit /\ [][ConcurrentNext]_vars

(***************************************************************************)
(* Results viewed.  The store is set up before the first request arrives.   *)
(* ViewSpec: two intakes of one participant, arriving at the same or at     *)
(* different clock readings, and a result request, over a store without     *)
(* compute definitions and rule sets.  ResultSpec: one intake and a result  *)
(* request over a store of at most two compute definitions and one rule set.*)
(***************************************************************************)
ViewInit ==
    /\ tables = EmptyTables
    /\ now = 1
    /\ req = [r \in 1..MaxConcurrent |-> IdleRequest]
    /\ view = [v \in 1..MaxViews |-> IdleView]
    /\ call = NoCall

NoRequestYet ==
    /\ \A r \in DOMAIN req : req[r].pc = "idle"
    /\ \A v \in DOMAIN view : view[v].pc = "idle"

SetUpFormTemplate == NoRequestYet /\ CreateFormTemplate

ViewIntakeBodies == {IntakeBody([age |-> Num(24)]), IntakeBody(<<>>)}

SubmitTimedIntake ==
    \E r \in DOMAIN req, body \in ViewIntakeBodies, time \in now..MaxClock :
        ReceiveIntake(r, Study, Participant, body, time)

\* The steps of an intake over a store without compute definitions and rule sets
LeanIntakeStep(r) ==
    \/ SelectTemplate(r)
    \/ SelectFields(r)
    \/ InsertSubmission(r)
    \/ SelectComputeDefinitions(r)
    \/ SelectRuleSets(r)
    \/ WriteAudit(r)

ViewResult == \E v \in DOMAIN view : ReceiveResult(v, Study, Participant)

ResultStep(v) ==
    \/ ResultSelectSubmission(v)
    \/ ResultSelectComputedValues(v)
    \/ ResultSelectRuleEvaluations(v)
    \/ ResultSelectAssignments(v)
    \/ ResultSelectSchedulePlan(v)
    \/ ResultWriteAudit(v)

ViewNext ==
    \/ SetUpFormTemplate
    \/ SubmitTimedIntake
    \/ \E r \in 1..MaxConcurrent : LeanIntakeStep(r)
    \/ ViewResult
    \/ \E v \in 1..MaxViews : ResultStep(v)

ViewSpec == ViewInit /\ [][ViewNext]_vars

ResultInit ==
    /\ tables = EmptyTables
    /\ now = 1
    /\ req = [r \in Requests |-> IdleRequest]
    /\ view = [v \in 1..MaxViews |-> IdleView]
    /\ call = NoCall

\* a := answers.age (undefined when the answers have no age), b := null
ViewComputeBodies == {ComputeBody("a", Var("answers.age")), ComputeBody("b", Null)}

SetUpComputeDefinition ==
    /\ NoRequestYet
    /\ Len(tables.compute_definitions) < MaxDefs
    /\ \E body \in ViewComputeBodies : handleCreateComputeDefinition(Study, body)

SetUpRuleSet == NoRequestYet /\ CreateLeanRuleSet

SubmitViewedIntake ==
    \E r \in DOMAIN req, body \in ViewIntakeBodies :
        ReceiveIntake(r, Study, Participant, body, now)

\* The computed_values insert of a value whose JSON.stringify is undefined: the
\* column is NOT NULL, so a store that enforces it rejects the statement and the
\* handler's catch answers (a store that does not enforce it takes the row:
\* InsertComputedValue)
ComputedValueRejected(r) ==
    /\ req[r].pc = "insert_computed"
    /\ ComputedValueRow(req[r], req[r].computeDefinitionsList[req[r].index]).value_json
            = Undefined
    /\ req' = [req EXCEPT ![r] =
                [@ EXCEPT !.pc = "done", !.failed = "store",
                          !.response = CatchResponse([text |-> "D1_ERROR"])]]
    /\ UNCHANGED <<tables, now, view, call>>

ResultNext ==
    \/ SetUpFormTemplate
    \/ SetUpComputeDefinition
    \/ SetUpRuleSet
    \/ SubmitViewedIntake
    \/ \E r \in Requests : IntakeStep(r)
    \/ \E r \in Requests : ComputedValueRejected(r)
    \/ ViewResult
    \/ \E v \in 1..MaxViews : ResultStep(v)

ResultSpec == ResultInit /\ [][ResultNext]_vars

(***************************************************************************)
(* Two studies: templates, compute definitions and rule sets of the         *)
(* request's study and of another one, published or not, set up before one  *)
(* intake of the first study arrives                                        *)
(***************************************************************************)
OtherStudy == "S2"
Studies == {Study, OtherStudy}

\* body with the given status; undefined leaves the handler's default, 'draft'
WithStatus(body, status) == [body EXCEPT !.status = status]

\* published a := 1 and, to be told apart by their keys, definitions that are not
\* published: b := 2 (status defaulted), c := 3 (archived)
StudyComputeBodies ==
    {ComputeBody("a", Num(1)),
     WithStatus(ComputeBody("b", Num(2)), Undefined),
     WithStatus(ComputeBody("c", Num(3)), Str("archived"))}

Always == Obj([op |-> Str("exists"), left |-> Var("answers.age")])

\* the published rules, and rules that are not published: all of them match
StudyRuleBodies ==
    RuleBodies \cup
    {WithStatus(RuleBody("group_assignment", "arm-draft",
                         Obj([when |-> Always,
                              assignment |-> Obj([key |-> Str("arm"), value |-> Str("B")])])),
                Str("draft")),
     WithStatus(RuleBody("scheduling", "visit-archived",
                         Obj([when |-> Always, plan |-> Obj([visits |-> Num(3)])])),
                Str("archived"))}

\* the intake names template 1 or template 2
StudyIntakeBodies ==
    {Obj([form_template_id |-> Num(id), answers |-> Obj([age |-> Num(24)])]) : id \in 1..2}

SetUpStudyTemplate ==
    /\ NoRequestYet
    /\ Len(tables.form_templates) < MaxTemplates
    /\ \E study \in Studies, body \in TemplateBodies : handleCreateFormTemplate(study, body)

SetUpStudyComputeDefinition ==
    /\ NoRequestYet
    /\ Len(tables.compute_definitions) < MaxLean
    /\ \E study \in Studies, body \in StudyComputeBodies :
            handleCreateComputeDefinition(study, body)

SetUpStudyRuleSet ==
    /\ NoRequestYet
    /\ Len(tables.rule_sets) < MaxRules
    /\ \E study \in Studies, body \in StudyRuleBodies : handleCreateRuleSet(study, body)

SubmitStudyIntake ==
    \E r \in DOMAIN req, body \in StudyIntakeBodies :
        ReceiveIntake(r, Study, Participant, body, now)

StudyNext ==
    \/ SetUpStudyTemplate
    \/ SetUpStudyComputeDefinition
    \/ SetUpStudyRuleSet
    \/ SubmitStudyIntake
    \/ \E r \in Requests : IntakeStep(r)

StudySpec == Init /\ [][StudyNext]_vars

(***************************************************************************)
(* Direct calls of evaluateExpression: one call, its expression and its     *)
(* context drawn from the sets below                                        *)
(***************************************************************************)
\* Leaves: age >= 18, age >= 21, a comparison with a missing operand, a between
\* with a null bound, a between within bounds, exists, an operator the
\* evaluator does not know
Leaves ==
    {Adult, Over21,
     Compare(">=", Var("answers.items"), Num(18)),
     Obj([op |-> Str("between"), left |-> Var("answers.age"), min |-> Num(18), max |-> Null]),
     Obj([op |-> Str("between"), left |-> Var("answers.age"), min |-> Num(18), max |-> Num(24)]),
     Always,
     Compare("like", Var("answers.age"), Num(18))}

AllOf(children) == Obj([all |-> Arr(children)])
AnyOf(children) == Obj([any |-> Arr(children)])
NotOf(expression) == Obj([not |-> expression])

\* The sequences of at most MaxChildren elements of a set
ListsOf(set) == UNION {[1..n -> set] : n \in 0..MaxChildren}

Children == Leaves \cup {AllOf(<<>>), AnyOf(<<>>), AnyOf(<<Adult>>), NotOf(Over21)}

Groups == {AllOf(children) : children \in ListsOf(Children)}
            \cup {AnyOf(children) : children \in ListsOf(Children)}

Expressions == Leaves \cup Groups \cup {NotOf(e) : e \in Leaves \cup Groups}

EvalContexts ==
    {[answers |-> Obj(answers), computed |-> EmptyObj, metadata |-> EmptyObj] :
        answers \in {<<>>, [age |-> Num(18)], [age |-> Num(24)], [age |-> Str("abc")]}}

EvalInit ==
    /\ tables = EmptyTables
    /\ now = 1
    /\ req = <<>>
    /\ view = <<>>
    /\ call \in {[fn |-> "evaluateExpression", expression |-> e, context |-> c,
                  returned |-> FALSE] : e \in Expressions, c \in EvalContexts}

\* evaluateExpression(expression, context) returns or throws; the context is
\* read only
CallEvaluateExpression ==
    /\ call.fn = "evaluateExpression"
    /\ ~call.returned
    /\ call' = [call EXCEPT !.returned = TRUE] @@
               [outcome |-> evaluateExpression(call.expression, call.context)]
    /\ UNCHANGED <<tables, now, req, view>>

EvalNext == CallEvaluateExpression

EvalSpec == EvalInit /\ [][EvalNext]_vars

(***************************************************************************)
(* Rule payloads of every JSON shape: ruleSetSchema takes any expression    *)
(* (z.unknown()), so the store can hold each of them                        *)
(***************************************************************************)
\* null, a number, a string, an array, {all: <no list>}, {not: null}, an unknown op
PayloadRuleBodies ==
    {RuleBody("eligibility", "payload", payload) :
        payload \in {Null, Num(5), Str("abc"), Arr(<<>>),
                     Obj([all |-> Str("x")]), NotOf(Null),
                     Compare("like", Var("answers.age"), Num(18))}}

SetUpPayloadRuleSet ==
    /\ NoRequestYet
    /\ Len(tables.rule_sets) < MaxRules
    /\ \E body \in RuleBodies \cup PayloadRuleBodies : handleCreateRuleSet(Study, body)

SetUpLeanComputeDefinition == NoRequestYet /\ CreateLeanComputeDefinition

SubmitAdultIntake ==
    \E r \in DOMAIN req : ReceiveIntake(r, Study, Participant, IntakeBody([age |-> Num(24)]), now)

PayloadNext ==
    \/ SetUpFormTemplate
    \/ SetUpLeanComputeDefinition
    \/ SetUpPayloadRuleSet
    \/ SubmitAdultIntake
    \/ \E r \in Requests : IntakeStep(r)

PayloadSpec == Init /\ [][PayloadNext]_vars

(***************************************************************************)
(* Direct calls of computeDefinitions: a caller that calls it twice with    *)
(* the same list of definitions and the same context object                 *)
(***************************************************************************)
Definition(key, definition) == [key |-> key, type |-> "number", definition |-> definition]

\* a := answers.age + 1, b := computed.a + 1, a := computed.a (a cycle),
\* b := computed.b * 2 (a cycle unless the context has b)
DirectDefinitions ==
    {Definition("a", Apply("add", <<Var("answers.age"), Num(1)>>)),
     Definition("b", Apply("add", <<Var("computed.a"), Num(1)>>)),
     Definition("a", Var("computed.a")),
     Definition("b", Apply("multiply", <<Var("computed.b"), Num(2)>>))}

DirectContexts ==
    {[answers |-> Obj(answers), computed |-> Obj(computed), metadata |-> EmptyObj] :
        answers \in {<<>>, [age |-> Num(24)]},
        computed \in {<<>>, [a |-> Num(5)], [b |-> Num(7)]}}

ComputeInit ==
    /\ tables = EmptyTables
    /\ now = 1
    /\ req = <<>>
    /\ view = <<>>
    /\ call \in {[fn |-> "computeDefinitions", definitions |-> list, given |-> context,
                  context |-> context, outcomes |-> <<>>] :
                    list \in UNION {[1..n -> DirectDefinitions] : n \in 0..MaxDefs},
                    context \in DirectContexts}

\* The outcome of calling computeDefinitions with the caller's context as it is
\* now, and that context as the call leaves it
Called(c, outcome) ==
    [c EXCEPT !.outcomes = Append(@, outcome),
              !.context.computed = CallerComputed(c.context, outcome)]

CallComputeDefinitions ==
    /\ call.fn = "computeDefinitions"
    /\ call.outcomes = <<>>
    /\ call' = Called(call, computeDefinitions(call.definitions, call.context))
    /\ UNCHANGED <<tables, now, req, view>>

CallComputeDefinitionsAgain ==
    /\ call.fn = "computeDefinitions"
    /\ Len(call.outcomes) = 1
    /\ call' = Called(call, computeDefinitions(call.definitions, call.context))
    /\ UNCHANGED <<tables, now, req, view>>

ComputeNext == CallComputeDefinitions \/ CallComputeDefinitionsAgain

ComputeSpec == ComputeInit /\ [][ComputeNext]_vars

(***************************************************************************)
(* Direct calls of the time helpers, as the compute functions duration and  *)
(* normalize_time reach them: duration both ways round for a pair of        *)
(* values, normalize_time of a value and then of its own result             *)
(***************************************************************************)
\* Time strings in the three forms, numbers of minutes (negative, beyond a day,
\* 59.6), and values the time parser does not take
TimeInputs ==
    {Str("6:00"), Str("06:00"), Str("22:00"), Str("24:00"), Str("25:30"), Str("06:75"),
     Str("06:00:30"), Str("06:59:45"), Str("23:59:30"),
     Num(0), Num(360), Num(1320), Num(-30), Num(2000), Rational(298, 5),
     Str("abc"), Null}

TimeInit ==
    /\ tables = EmptyTables
    /\ now = 1
    /\ req = <<>>
    /\ view = <<>>
    /\ call \in {[fn |-> "durationMinutes", start |-> a, end |-> b, outcomes |-> <<>>] :
                    a \in TimeInputs, b \in TimeInputs}
                \cup {[fn |-> "normalizeTime", value |-> x, outcomes |-> <<>>] :
                    x \in TimeInputs}

\* durationMinutes(start, end)
CallDurationMinutes ==
    /\ call.fn = "durationMinutes"
    /\ call.outcomes = <<>>
    /\ call' = [call EXCEPT !.outcomes = <<durationMinutes(call.start, call.end)>>]
    /\ UNCHANGED <<tables, now, req, view>>

\* durationMinutes(end, start)
CallDurationMinutesBack ==
    /\ call.fn = "durationMinutes"
    /\ Len(call.outcomes) = 1
    /\ call' = [call EXCEPT !.outcomes = Append(@, durationMinutes(call.end, call.start))]
    /\ UNCHANGED <<tables, now, req, view>>

\* normalizeTime(value)
CallNormalizeTime ==
    /\ call.fn = "normalizeTime"
    /\ call.outcomes = <<>>
    /\ call' = [call EXCEPT !.outcomes = <<normalizeTime(call.value)>>]
    /\ UNCHANGED <<tables, now, req, view>>

\* normalizeTime of the text the first call returned
CallNormalizeTimeAgain ==
    /\ call.fn = "normalizeTime"
    /\ Len(call.outcomes) = 1
    /\ call.outcomes[1] # Null
    /\ call' = [call EXCEPT !.outcomes = Append(@, normalizeTime(call.outcomes[1]))]
    /\ UNCHANGED <<tables, now, req, view>>

TimeNext ==
    \/ CallDurationMinutes
    \/ CallDurationMinutesBack
    \/ CallNormalizeTime
    \/ CallNormalizeTimeAgain

TimeSpec == TimeInit /\ [][TimeNext]_vars

(***************************************************************************)
(* Group assignment payloads: one intake over a store whose                 *)
(* group_assignment rule sets name the assignment in every way, or not at   *)
(* all                                                                      *)
(***************************************************************************)
Arm(value) == Obj([key |-> Str("arm"), value |-> Str(value)])

\* {when, assignment}, {when, group_key, group_value}, {when} alone,
\* {when, group_key} alone, {when, assignment: {key}}
AssignRuleBodies ==
    {RuleBody("group_assignment", "arm", payload) :
        payload \in {Obj([when |-> Adult, assignment |-> Arm("A")]),
                     Obj([when |-> Adult, group_key |-> Str("arm"), group_value |-> Str("B")]),
                     Obj([when |-> Adult]),
                     Obj([when |-> Adult, group_key |-> Str("arm")]),
                     Obj([when |-> Adult, assignment |-> Obj([key |-> Str("arm")])])}}

SetUpAssignRuleSet ==
    /\ NoRequestYet
    /\ Len(tables.rule_sets) < MaxRules
    /\ \E body \in RuleBodies \cup AssignRuleBodies : handleCreateRuleSet(Study, body)

AssignIntakeBodies == {IntakeBody([age |-> Num(15)]), IntakeBody([age |-> Num(24)])}

SubmitAssignIntake ==
    \E r \in DOMAIN req, body \in AssignIntakeBodies :
        ReceiveIntake(r, Study, Participant, body, now)

AssignNext ==
    \/ SetUpFormTemplate
    \/ SetUpLeanComputeDefinition
    \/ SetUpAssignRuleSet
    \/ SubmitAssignIntake
    \/ \E r \in Requests : IntakeStep(r)

AssignSpec == Init /\ [][AssignNext]_vars

(***************************************************************************)
(* Direct calls of computeDefinitions with an arithmetic definition:        *)
(* k := duration('abc', '06:00'), which is null, and p := op(args), the     *)
(* operator and its arguments drawn from the sets below                     *)
(***************************************************************************)
ArithmeticOps == {"add", "subtract", "multiply", "divide"}

\* null, numbers, a numeric string, a string that is no number, computed.k
\* (null) and a missing answer (undefined)
ArithmeticArgs ==
    {Null, Num(0), Num(2), Num(6), Str("24"), Str("abc"),
     Var("computed.k"), Var("answers.missing")}

NullDuration == Obj([func |-> Str("duration"), args |-> Arr(<<Str("abc"), Str("06:00")>>)])

ArithmeticInit ==
    /\ tables = EmptyTables
    /\ now = 1
    /\ req = <<>>
    /\ view = <<>>
    /\ call \in {[fn |-> "computeDefinitions",
                  definitions |-> <<Definition("k", NullDuration),
                                    Definition("p", Apply(op, args))>>,
                  given |-> context, context |-> context, outcomes |-> <<>>] :
                    op \in ArithmeticOps,
                    args \in UNION {[1..n -> ArithmeticArgs] : n \in 0..MaxArgs},
                    context \in {[answers |-> EmptyObj, computed |-> EmptyObj,
                                  metadata |-> EmptyObj]}}

ArithmeticNext == CallComputeDefinitions

ArithmeticSpec == ArithmeticInit /\ [][ArithmeticNext]_vars

(***************************************************************************)
(* Direct calls of resolveVariable: one call, its variable and its context  *)
(* drawn from the sets below                                                *)
(***************************************************************************)
\* Paths into the three scopes, a scope alone, an unknown scope, a variable
\* without a dot
PathVariables ==
    {"answers", "answers.age", "answers.age.x", "answers.items", "answers.items.0",
     "answers.items.length", "answers.toString", "computed.a", "computed.toString",
     "metadata.site", "other.x", "age"}

\* answers: none, a number, null, a list, a map keyed "0", a string
PathContexts ==
    {[answers |-> Obj(answers), computed |-> Obj(computed), metadata |-> EmptyObj] :
        answers \in {<<>>, [age |-> Num(24)], [age |-> Null],
                     [items |-> Arr(<<Str("x"), Str("y")>>)],
                     [items |-> Obj([k \in {"0"} |-> Str("x")])],
                     [items |-> Str("xy")]},
        computed \in {<<>>, [a |-> Num(5)]}}

PathInit ==
    /\ tables = EmptyTables
    /\ now = 1
    /\ req = <<>>
    /\ view = <<>>
    /\ call \in {[fn |-> "resolveVariable", variable |-> variable, context |-> context,
                  returned |-> FALSE] :
                    variable \in PathVariables, context \in PathContexts}

\* resolveVariable(variable, context) returns; the context is read only
CallResolveVariable ==
    /\ call.fn = "resolveVariable"
    /\ ~call.returned
    /\ call' = [call EXCEPT !.returned = TRUE] @@
               [outcome |-> resolveVariable(call.variable, call.context)]
    /\ UNCHANGED <<tables, now, req, view>>

PathNext == CallResolveVariable

PathSpec == PathInit /\ [][PathNext]_vars

(***************************************************************************)
(* Direct calls of evaluateExpression with a between and with the pair of   *)
(* comparisons over the same operands: left, min and max and the context    *)
(* drawn from the sets below                                                *)
(***************************************************************************)
\* A variable, numbers, a wrapped number, a numeric string, a date, a string
\* that is neither, null
BoundOperands ==
    {Var("answers.age"), Num(18), Num(24), Obj([value |-> Num(21)]),
     Str("24"), Str("2026-02-13"), Str("abc"), Null}

BetweenOf(left, min, max) ==
    Obj([op |-> Str("between"), left |-> left, min |-> min, max |-> max])

BothBoundsOf(left, min, max) ==
    AllOf(<<Compare(">=", left, min), Compare("<=", left, max)>>)

BoundContexts ==
    {[answers |-> Obj(answers), computed |-> EmptyObj, metadata |-> EmptyObj] :
        answers \in {<<>>, [age |-> Num(18)], [age |-> Num(21)], [age |-> Str("abc")]}}

BetweenInit ==
    /\ tables = EmptyTables
    /\ now = 1
    /\ req = <<>>
    /\ view = <<>>
    /\ call \in {[fn |-> "evaluateExpression", left |-> left, min |-> min, max |-> max,
                  context |-> context, between |-> <<>>, bounds |-> <<>>] :
                    left \in BoundOperands, min \in BoundOperands, max \in BoundOperands,
                    context \in BoundContexts}

\* evaluateExpression({op: 'between', left, min, max}, context)
CallEvaluateBetween ==
    /\ call.fn = "evaluateExpression"
    /\ call.between = <<>>
    /\ call' = [call EXCEPT !.between =
                    <<evaluateExpression(BetweenOf(call.left, call.min, call.max),
                                         call.context)>>]
    /\ UNCHANGED <<tables, now, req, view>>

\* evaluateExpression({all: [{op: '>=', left, right: min}, {op: '<=', left, right: max}]}, context)
CallEvaluateBothBounds ==
    /\ call.fn = "evaluateExpression"
    /\ call.bounds = <<>>
    /\ call' = [call EXCEPT !.bounds =
                    <<evaluateExpression(BothBoundsOf(call.left, call.min, call.max),
                                         call.context)>>]
    /\ UNCHANGED <<tables, now, req, view>>

BetweenNext == CallEvaluateBetween \/ CallEvaluateBothBounds

BetweenSpec == BetweenInit /\ [][BetweenNext]_vars

(***************************************************************************)
(* Direct calls of validateAnswers: one call, its list of fields and its    *)
(* answers drawn from the sets below                                        *)
(***************************************************************************)
FieldDefinition(key, type, required, validation) ==
    [key |-> key, type |-> type, required |-> Num(IF required THEN 1 ELSE 0),
     options_json |-> Null,
     validation_json |-> IF validation = Undefined THEN Null ELSE JsonStringify(validation)]

\* age: a required number of at least 18, or an optional number; name: a
\* required string; consent: a required boolean; wake: an optional time
ListedFields ==
    {FieldDefinition("age", "number", TRUE, Obj([min |-> Num(18)])),
     FieldDefinition("age", "number", FALSE, Undefined),
     FieldDefinition("name", "string", TRUE, Undefined),
     FieldDefinition("consent", "boolean", TRUE, Undefined),
     FieldDefinition("wake", "time", FALSE, Undefined)}

\* An answers map of the values given (undefined: the key is left out)
AnswersOf(age, name, consent, wake) ==
    LET given == [age |-> age, name |-> name, consent |-> consent, wake |-> wake]
    IN Obj([k \in {x \in DOMAIN given : given[x] # Undefined} |-> given[k]])

ListedAnswers ==
    {AnswersOf(age, name, consent, wake) :
        age \in {Undefined, Null, Num(15), Num(24), Str("abc")},
        name \in {Undefined, Str(""), Str("abc")},
        consent \in {Undefined, Bool(TRUE)},
        wake \in {Undefined, Str("abc")}}

ValidateInit ==
    /\ tables = EmptyTables
    /\ now = 1
    /\ req = <<>>
    /\ view = <<>>
    /\ call \in {[fn |-> "validateAnswers", fields |-> fields, answers |-> answers,
                  returned |-> FALSE] :
                    fields \in UNION {[1..n -> ListedFields] : n \in 0..MaxListed},
                    answers \in ListedAnswers}

\* validateAnswers(fields, answers) returns { valid, errors }
CallValidateAnswers ==
    /\ call.fn = "validateAnswers"
    /\ ~call.returned
    /\ call' = [call EXCEPT !.returned = TRUE] @@
               [outcome |-> validateAnswers(call.fields, call.answers)]
    /\ UNCHANGED <<tables, now, req, view>>

ValidateNext == CallValidateAnswers

ValidateSpec == ValidateInit /\ [][ValidateNext]_vars

(***************************************************************************)
(* Direct calls of computeDefinitions with one acyclic set of definitions   *)
(* of distinct keys in two orders                                           *)
(***************************************************************************)
\* a := answers.age, b := computed.a + 1, k := {x: 2}, d := computed.k.x
OrderedDefinitions ==
    {Definition("a", Var("answers.age")),
     Definition("b", Apply("add", <<Var("computed.a"), Num(1)>>)),
     Definition("k", Obj([value |-> Obj([x |-> Num(2)])])),
     Definition("d", Var("computed.k.x"))}

\* The lists of at most MaxOrdered definitions of distinct keys
OrderedLists ==
    {list \in UNION {[1..n -> OrderedDefinitions] : n \in 0..MaxOrdered} :
        \A i, j \in DOMAIN list : list[i] = list[j] => i = j}

SameDefinitions(list, other) ==
    /\ Len(list) = Len(other)
    /\ {list[i] : i \in DOMAIN list} = {other[i] : i \in DOMAIN other}

OrderInit ==
    /\ tables = EmptyTables
    /\ now = 1
    /\ req = <<>>
    /\ view = <<>>
    /\ call \in {[fn |-> "computeDefinitions", definitions |-> pair[1], reordered |-> pair[2],
                  context |-> [answers |-> Obj(answers), computed |-> EmptyObj,
                               metadata |-> EmptyObj],
                  outcomes |-> <<>>] :
                    pair \in {p \in OrderedLists \X OrderedLists : SameDefinitions(p[1], p[2])},
                    answers \in {<<>>, [age |-> Num(24)]}}

\* computeDefinitions(definitions, context)
CallComputeInOrder ==
    /\ call.fn = "computeDefinitions"
    /\ call.outcomes = <<>>
    /\ call' = [call EXCEPT !.outcomes = <<computeDefinitions(call.definitions, call.context)>>]
    /\ UNCHANGED <<tables, now, req, view>>

\* computeDefinitions of the same definitions in the other order
CallComputeReordered ==
    /\ call.fn = "computeDefinitions"
    /\ Len(call.outcomes) = 1
    /\ call' = [call EXCEPT !.outcomes =
                    Append(@, computeDefinitions(call.reordered, call.context))]
    /\ UNCHANGED <<tables, now, req, view>>

OrderNext == CallComputeInOrder \/ CallComputeReordered

OrderSpec == OrderInit /\ [][OrderNext]_vars

(***************************************************************************)
(* Two participants: two intakes in flight together, each of its own        *)
(* participant, over a store set up before the first arrives                *)
(***************************************************************************)
\* Every request is of another participant
ParticipantOf(r) ==
    CASE r = 1 -> Participant
      [] r = 2 -> "P2"
      [] OTHER -> "P3"

SetUpLeanRuleSet == NoRequestYet /\ CreateLeanRuleSet

SubmitOwnIntake ==
    \E r \in DOMAIN req, body \in LeanIntakeBodies :
        ReceiveIntake(r, Study, ParticipantOf(r), body, now)

IsolationNext ==
    \/ SetUpFormTemplate
    \/ SetUpLeanComputeDefinition
    \/ SetUpLeanRuleSet
    \/ SubmitOwnIntake
    \/ \E r \in 1..MaxConcurrent : IntakeStep(r)

IsolationSpec == ConcurrentInit /\ [][IsolationNext]_vars

(***************************************************************************)
(* Failures of every kind: one intake, its body well-formed or not, over a  *)
(* store set up before it arrives with or without a template, a required    *)
(* field, a compute definition (one of them a cycle) and a rule set (one of *)
(* them with a null payload), and whose calls may reject                    *)
(***************************************************************************)
SetUpFormField == NoRequestYet /\ CreateFormField

SetUpOneComputeDefinition ==
    /\ NoRequestYet
    /\ Len(tables.compute_definitions) < MaxLean
    /\ \E body \in ComputeBodies : handleCreateComputeDefinition(Study, body)

SetUpOneRuleSet ==
    /\ NoRequestYet
    /\ Len(tables.rule_sets) < MaxLean
    /\ \E body \in RuleBodies \cup {RuleBody("eligibility", "payload", Null)} :
            handleCreateRuleSet(Study, body)

\* The bodies of Spec, and one without form_template_id
FailureIntakeBodies == IntakeBodies \cup {Obj([answers |-> EmptyObj])}

SubmitAnyIntake ==
    \E r \in DOMAIN req, body \in FailureIntakeBodies :
        ReceiveIntake(r, Study, Participant, body, now)

FailureNext ==
    \/ SetUpFormTemplate
    \/ SetUpFormField
    \/ SetUpOneComputeDefinition
    \/ SetUpOneRuleSet
    \/ SubmitAnyIntake
    \/ \E r \in Requests : IntakeStep(r)
    \/ \E r \in Requests : StoreCallFails(r)
    \/ \E r \in Requests : AuditFails(r)

FailureSpec == Init /\ [][FailureNext]_vars

(***************************************************************************)
(* Caller metadata: one intake whose body carries metadata of its own, some *)
(* of it under the names of the system's fields, over a store whose compute *)
(* definition and rule sets read the metadata                               *)
(***************************************************************************)
\* a := metadata.study_id
MetadataComputeBodies == {ComputeBody("a", Var("metadata.study_id"))}

\* own: metadata.participant_id == 'P1' (the participant of every request)
OwnParticipant == Compare("==", Var("metadata.participant_id"), Str(Participant))

MetadataRuleBodies ==
    RuleBodies \cup {RuleBody("eligibility", "own", Obj([expression |-> OwnParticipant]))}

\* no metadata, metadata of other names, and metadata under the system's names
CallerMetadata ==
    {Undefined, Obj([site |-> Str("main")]),
     Obj([participant_id |-> Str("P2")]), Obj([participant_id |-> Str(Participant)]),
     Obj([study_id |-> Str("S2")]), Obj([submission_id |-> Num(7), site |-> Str("main")])}

MetadataIntakeBodies ==
    {Obj([form_template_id |-> Num(1), answers |-> Obj([age |-> Num(24)])]
         @@ (IF metadata = Undefined THEN <<>> ELSE [metadata |-> metadata])) :
        metadata \in CallerMetadata}

SetUpMetadataComputeDefinition ==
    /\ NoRequestYet
    /\ Len(tables.compute_definitions) < MaxLean
    /\ \E body \in MetadataComputeBodies : handleCreateComputeDefinition(Study, body)

SetUpMetadataRuleSet ==
    /\ NoRequestYet
    /\ Len(tables.rule_sets) < MaxRules
    /\ \E body \in MetadataRuleBodies : handleCreateRuleSet(Study, body)

SubmitIntakeWithMetadata ==
    \E r \in DOMAIN req, body \in MetadataIntakeBodies :
        ReceiveIntake(r, Study, Participant, body, now)

MetadataNext ==
    \/ SetUpFormTemplate
    \/ SetUpMetadataComputeDefinition
    \/ SetUpMetadataRuleSet
    \/ SubmitIntakeWithMetadata
    \/ \E r \in Requests : IntakeStep(r)

MetadataSpec == Init /\ [][MetadataNext]_vars

(***************************************************************************)
(* Plans viewed: intakes of one participant one after another, each         *)
(* received after the one before it was answered and at a later clock       *)
(* reading, and a result request received and answered while no intake is   *)
(* under way                                                                *)
(***************************************************************************)
NoIntakeUnderWay == \A r \in DOMAIN req : req[r].pc \in {"idle", "done"}

SetUpPlanRuleSet == NoRequestYet /\ CreateLeanRuleSet

SubmitIntakeInTurn ==
    /\ NoIntakeUnderWay
    /\ \A v \in DOMAIN view : view[v].pc \in {"idle", "done"}
    /\ \E r \in DOMAIN req, body \in LeanIntakeBodies, time \in now..MaxClock :
        /\ \A o \in DOMAIN req : req[o].pc = "done" => req[o].submissionTime < time
        /\ ReceiveIntake(r, Study, Participant, body, time)

ViewResultInTurn == NoIntakeUnderWay /\ ViewResult

PlanNext ==
    \/ SetUpFormTemplate
    \/ SetUpLeanComputeDefinition
    \/ SetUpPlanRuleSet
    \/ SubmitIntakeInTurn
    \/ \E r \in 1..MaxConcurrent : IntakeStep(r)
    \/ ViewResultInTurn
    \/ \E v \in 1..MaxViews : ResultStep(v)

PlanSpec == ViewInit /\ [][PlanNext]_vars

(***************************************************************************)
(* Store calls that reject: one request over a store whose calls may fail  *)
(***************************************************************************)
FaultNext ==
    \/ Next
    \/ \E r \in Requests : StoreCallFails(r)
    \/ \E r \in Requests : AuditFails(r)

FaultSpec == Init /\ [][FaultNext]_vars

(***************************************************************************)
(* Properties                                                              *)
(***************************************************************************)
\* How often x occurs in seq
Count(seq, x) == Cardinality({i \in DOMAIN seq : seq[i] = x})

\* Request r has written table
Wrote(r, table) == Count(req[r].writes, table) > 0

\* The rows of table, in tbls, that carry submission_id sid
RowsOf(tbls, table, sid) == SelectSeq(tbls[table], LAMBDA row : row.submission_id = sid)

\* The audit records of intakes
IntakeAudits == {row \in BagToSet(tables.audit_logs) : row.action = "intake_submitted"}

\* The writes to table of all requests together
TotalWrites(table) ==
    LET sum[n \in 0..Len(req)] ==
            IF n = 0 THEN 0 ELSE sum[n - 1] + Count(req[n].writes, table)
    IN sum[Len(req)]

\* The tables an intake writes hold the rows the requests wrote, and no other
WritesAccounted ==
    /\ \A t \in {"form_submissions", "computed_values", "rule_evaluations",
                 "participant_assignments", "schedule_plans"} :
            Len(tables[t]) = TotalWrites(t)
    /\ BagCardinality([row \in IntakeAudits |-> tables.audit_logs[row]])
            = TotalWrites("audit_logs")

\* Request r passed validation and is past the insert that follows it
PastSubmissionInsert(r) == req[r].valid = "valid" /\ req[r].pc # "insert_submission"

\* C1: a request has inserted a form_submissions row if and only if
\* validateAnswers reported its answers valid (the insert being the store call
\* that follows validation), it inserts one row only, and the table holds as
\* many rows as there are such requests.
C1_SubmissionIffValid ==
    /\ \A r \in DOMAIN req : Wrote(r, "form_submissions") <=> PastSubmissionInsert(r)
    /\ \A r \in DOMAIN req : Count(req[r].writes, "form_submissions") <= 1
    /\ Len(tables.form_submissions) = Cardinality({r \in DOMAIN req : PastSubmissionInsert(r)})

\* One request rejected by validation and one accepted: one row
C1_Witness ==
    \E r1, r2 \in DOMAIN req :
        /\ req[r1].valid = "valid" /\ Wrote(r1, "form_submissions")
        /\ req[r2].valid = "invalid" /\ req[r2].pc = "done"
        /\ Len(tables.form_submissions) = 1

\* C2: every computed_values row and every rule_evaluations row carries the
\* submission_id of a form_submissions row that exists, and the rows carrying a
\* request's submission id are the rows that request wrote, however the
\* requests interleave.
C2_RowsReferenceSubmission ==
    \A t \in {"computed_values", "rule_evaluations"} :
        /\ \A i \in DOMAIN tables[t] :
                \E j \in DOMAIN tables.form_submissions :
                    tables.form_submissions[j].id = tables[t][i].submission_id
        /\ \A r \in DOMAIN req :
                Wrote(r, "form_submissions") =>
                    Len(RowsOf(tables, t, req[r].submissionId)) = Count(req[r].writes, t)

\* Two requests in flight together, the later one's submission inserted first,
\* both with dependent rows
C2_Witness ==
    /\ req[1].pc \notin {"idle", "done"} /\ req[2].pc \notin {"idle", "done"}
    /\ req[1].submissionId = 2 /\ req[2].submissionId = 1
    /\ Wrote(1, "computed_values") /\ Wrote(2, "computed_values")
    /\ Wrote(1, "rule_evaluations") /\ Wrote(2, "rule_evaluations")

\* C3: computed_values holds at most one row per key and submission.
C3_OneRowPerKey ==
    \A i, j \in DOMAIN tables.computed_values :
        (/\ i # j
         /\ tables.computed_values[i].submission_id = tables.computed_values[j].submission_id)
            => tables.computed_values[i].key # tables.computed_values[j].key

\* C4: a request whose answers validateAnswers reported invalid is answered 400
\* with the list of issues and has written nothing: no row of any table an
\* intake writes, and no intake_submitted audit record, is its own (every such
\* row is a write of a request that wrote).
C4_InvalidWritesNothing ==
    \A r \in DOMAIN req :
        req[r].valid = "invalid" =>
            /\ req[r].pc = "done"
            /\ req[r].response.status = 400
            /\ "errors" \in DOMAIN req[r].response
            /\ Len(req[r].response.errors) > 0
            /\ req[r].writes = <<>>
            /\ WritesAccounted
            /\ \A row \in IntakeAudits : row.entity_id # DecimalText(req[r].submissionId)

\* A request rejected by validation, the template's field being there
C4_Witness ==
    \E r \in DOMAIN req :
        /\ req[r].valid = "invalid" /\ req[r].pc = "done"
        /\ Len(tables.form_fields) = 1

RECURSIVE ReferencedKeys(_)
\* The keys k that expression reads as computed.k
ReferencedKeys(expression) ==
    IF expression.t = "object"
    THEN IF "var" \in DOMAIN expression.o
         THEN (IF expression.o.var.t = "string" /\ StartsWithComputed(expression.o.var.s)
               THEN {AfterComputed(expression.o.var.s)} ELSE {})
         ELSE UNION {ReferencedKeys(expression.o[k]) : k \in DOMAIN expression.o}
    ELSE IF expression.t = "array"
    THEN UNION {ReferencedKeys(expression.a[i]) : i \in DOMAIN expression.a}
    ELSE {}

\* The keys a definition of key reads
DependsOn(definitions, key) ==
    UNION {ReferencedKeys(definitions[i].definition) :
                i \in {j \in DOMAIN definitions : definitions[j].key = key}}

RECURSIVE ReachableKeys(_, _, _)
\* The keys reached from the keys of from in at most n dependency steps
ReachableKeys(definitions, from, n) ==
    IF n = 0 THEN {}
    ELSE LET next == UNION {DependsOn(definitions, k) : k \in from}
         IN next \cup ReachableKeys(definitions, next, n - 1)

\* The keys of definitions that lie on a dependency cycle
CycleKeys(definitions) ==
    {k \in {definitions[i].key : i \in DOMAIN definitions} :
        k \in ReachableKeys(definitions, {k}, Len(definitions))}

\* C5: a request that read published definitions with a dependency cycle through
\* computed.<key> is answered with the one error that names a key on the cycle,
\* and writes no computed_values row.
C5_CycleRejected ==
    \A r \in DOMAIN req :
        CycleKeys(req[r].computeDefinitionsList) # {} =>
            /\ req[r].pc = "done"
            /\ \E k \in CycleKeys(req[r].computeDefinitionsList) :
                    req[r].response = CatchResponse(CircularError(k))
            /\ ~Wrote(r, "computed_values")

\* The place of a table in the order of an intake's writes
WriteRank(table) ==
    CASE table = "form_submissions" -> 1
      [] table = "computed_values" -> 2
      [] table = "rule_evaluations" -> 3
      [] table = "participant_assignments" -> 4
      [] table = "schedule_plans" -> 5
      [] OTHER -> 6

\* C6: a request's writes come in the order form_submissions, computed_values,
\* rule_evaluations, participant_assignments, schedule_plans, audit_logs: the
\* first write is the one form_submissions row and the intake_submitted audit
\* record, written once, is the last.
C6_WriteOrder ==
    \A r \in DOMAIN req :
        LET writes == req[r].writes
        IN /\ \A i, j \in DOMAIN writes : i < j => WriteRank(writes[i]) <= WriteRank(writes[j])
           /\ writes # <<>> => writes[1] = "form_submissions"
           /\ Count(writes, "form_submissions") <= 1
           /\ Count(writes, "audit_logs") <= 1
           /\ Wrote(r, "audit_logs") => req[r].pc = "done"

\* A request that wrote all six tables
C6_Witness ==
    \E r \in DOMAIN req :
        \A t \in {"form_submissions", "computed_values", "rule_evaluations",
                  "participant_assignments", "schedule_plans", "audit_logs"} : Wrote(r, t)

\* rows is one row per rule of rules, in their order
OneRowPerRule(rows, rules) ==
    /\ Len(rows) = Len(rules)
    /\ \A i \in DOMAIN rows : rows[i].rule_set_id = rules[i].id

\* C7 as stated: when a request that passed validation is answered, the
\* rule_evaluations rows of its submission are one per published rule set of
\* the study.
C7_RowPerRuleOnceValid ==
    [][\A r \in DOMAIN req :
          (req[r].pc # "done" /\ req'[r].pc = "done" /\ req'[r].valid = "valid")
              => OneRowPerRule(RowsOf(tables', "rule_evaluations", req'[r].submissionId),
                               PublishedRuleRows(tables', req'[r].studyId))]_vars

\* C7, amended: a request answered 201 has written one rule_evaluations row
\* per rule set it read as published for its study, in their order, matched or
\* not; result_bool is 1 exactly when the response's entry says matched, and the
\* response's list has the same length and order.
C7_RowPerRuleOnSuccess ==
    \A r \in DOMAIN req :
        (req[r].pc = "done" /\ req[r].response.status = 201) =>
            LET rows == RowsOf(tables, "rule_evaluations", req[r].submissionId)
                list == req[r].response.rule_evaluations
                rules == req[r].rules
            IN /\ OneRowPerRule(rows, rules)
               /\ Len(list) = Len(rules)
               /\ \A i \in DOMAIN rules :
                    /\ rules[i].status = "published" /\ rules[i].study_id = req[r].studyId
                    /\ list[i].o.rule_set_id = Num(rules[i].id)
                    /\ rows[i].result_bool = (IF list[i].o.matched.b THEN 1 ELSE 0)

\* A 201 over two rule sets, one matched and one not
C7_Witness ==
    \E r \in DOMAIN req :
        /\ req[r].pc = "done" /\ req[r].response.status = 201
        /\ Len(req[r].rules) = 2
        /\ req[r].response.rule_evaluations[1].o.matched.b
        /\ ~req[r].response.rule_evaluations[2].o.matched.b
        /\ Len(tables.rule_evaluations) = 2

\* The entries of a 201's rule_evaluations list that are matched scheduling rules
MatchedScheduling(list) ==
    {i \in DOMAIN list : list[i].o.rule_type = Str("scheduling") /\ list[i].o.matched.b}

\* C8: in a 201, schedule_plan is null exactly when no scheduling rule matched;
\* otherwise its plans hold one entry per matched scheduling rule, in their
\* order, and the request inserted exactly one schedule_plans row (none when
\* schedule_plan is null).
C8_SchedulePlan ==
    \A r \in DOMAIN req :
        (req[r].pc = "done" /\ req[r].response.status = 201) =>
            LET list == req[r].response.rule_evaluations
                plan == req[r].response.schedule_plan
                matched == MatchedScheduling(list)
            IN /\ plan = Null <=> matched = {}
               /\ matched = {} => Count(req[r].writes, "schedule_plans") = 0
               /\ matched # {} =>
                    /\ Len(plan.o.plans.a) = Cardinality(matched)
                    /\ \A n \in DOMAIN plan.o.plans.a :
                          \E i \in matched :
                              /\ Cardinality({j \in matched : j <= i}) = n
                              /\ plan.o.plans.a[n].o.rule_set_id = list[i].o.rule_set_id
                    /\ Count(req[r].writes, "schedule_plans") = 1
               /\ Len(tables.schedule_plans) = TotalWrites("schedule_plans")

\* A 201 with two matched scheduling rules: two plans, one row
C8_Witness ==
    \E r \in DOMAIN req :
        /\ req[r].pc = "done" /\ req[r].response.status = 201
        /\ Cardinality(MatchedScheduling(req[r].response.rule_evaluations)) = 2
        /\ Len(req[r].response.schedule_plan.o.plans.a) = 2
        /\ Len(tables.schedule_plans) = 1

\* C9: a request whose audit write rejected is still answered 201.
C9_AuditFailureSwallowed ==
    \A r \in DOMAIN req : req[r].failed = "audit" => req[r].response.status = 201

\* C10: a request one of whose store calls other than the audit write rejected
\* is answered with a 5xx status.
C10_StoreFailureIs5xx ==
    \A r \in DOMAIN req : req[r].failed = "store" => req[r].response.status \in 500..599

\* C11: the submission an intake-result request reads is, among the submissions
\* of its (study, participant) in the store at that read, the one with the
\* greatest submitted_at and, among those with equal submitted_at, the highest id
C11_LatestByTimeThenId ==
    [][\A v \in DOMAIN view :
        (view[v].pc = "select_submission" /\ view'[v].pc = "select_computed") =>
            \A j \in IdsOfPair(tables, "form_submissions", view[v].studyId,
                               view[v].participantId) :
                LET mine == tables.form_submissions[view'[v].submissionId].submitted_at
                    other == tables.form_submissions[j].submitted_at
                IN \/ TimestampRank(other) < TimestampRank(mine)
                   \/ /\ TimestampRank(other) = TimestampRank(mine)
                      /\ j <= view'[v].submissionId]_vars

NamesOwnTemplate(r) ==
    \E row \in {tables.form_templates[i] : i \in DOMAIN tables.form_templates} :
        /\ row.id = req[r].body.o.form_template_id.n
        /\ row.study_id = req[r].studyId

\* C13: a request whose form_template_id names no template of its study (no
\* template of that id, or one of another study) is, once the template was
\* looked up, answered 404 and has written nothing: no row of any table an
\* intake writes and no intake_submitted audit record is its own.
C13_TemplateNotFound ==
    \A r \in DOMAIN req :
        (req[r].pc \notin {"idle", "select_template"} /\ ~NamesOwnTemplate(r)) =>
            /\ req[r].pc = "done"
            /\ req[r].response.status = 404
            /\ req[r].writes = <<>>
            /\ WritesAccounted
            /\ IntakeAudits = {}

\* A request naming the template of another study, answered
C13_Witness ==
    \E r \in DOMAIN req :
        /\ req[r].pc = "done" /\ req[r].response.status = 404
        /\ Len(tables.form_templates) = 1
        /\ tables.form_templates[1].study_id = OtherStudy
        /\ req[r].body.o.form_template_id.n = 1

\* The published rows of a table of definitions that belong to a study
PublishedOf(table, studyId) ==
    {row \in {tables[table][i] : i \in DOMAIN tables[table]} :
        row.study_id = studyId /\ row.status = "published"}

\* The study of the submission a row refers to
StudyOfSubmission(sid) == tables.form_submissions[sid].study_id

\* C14: every row an intake persisted stems from a published definition or rule
\* set of the intake's own study: each computed_values row has the key of one,
\* each rule_evaluations row names one, each assignment is the assignment of a
\* group_assignment one, each plan of a schedule_plans row names a scheduling
\* one; and the responses list evaluations of such rule sets only.
C14_PublishedOfStudyOnly ==
    /\ \A i \in DOMAIN tables.computed_values :
        \E d \in PublishedOf("compute_definitions",
                             StudyOfSubmission(tables.computed_values[i].submission_id)) :
            d.key = tables.computed_values[i].key
    /\ \A i \in DOMAIN tables.rule_evaluations :
        \E rule \in PublishedOf("rule_sets",
                                StudyOfSubmission(tables.rule_evaluations[i].submission_id)) :
            rule.id = tables.rule_evaluations[i].rule_set_id
    /\ \A i \in DOMAIN tables.participant_assignments :
        \E rule \in PublishedOf("rule_sets", tables.participant_assignments[i].study_id) :
            /\ rule.rule_type = "group_assignment"
            /\ rule.expression_json.text.o.assignment.o.key.s
                    = tables.participant_assignments[i].group_key
            /\ rule.expression_json.text.o.assignment.o.value.s
                    = tables.participant_assignments[i].group_value
    /\ \A i \in DOMAIN tables.schedule_plans :
        \A n \in DOMAIN tables.schedule_plans[i].plan_json.text.o.plans.a :
            \E rule \in PublishedOf("rule_sets", tables.schedule_plans[i].study_id) :
                /\ rule.rule_type = "scheduling"
                /\ Num(rule.id) = tables.schedule_plans[i].plan_json.text.o.plans.a[n].o.rule_set_id
                /\ rule.expression_json.text.o.plan
                        = tables.schedule_plans[i].plan_json.text.o.plans.a[n].o.plan
    /\ \A r \in DOMAIN req :
        req[r].response.status = 201 =>
            /\ \A n \in DOMAIN req[r].response.rule_evaluations :
                \E rule \in PublishedOf("rule_sets", req[r].studyId) :
                    Num(rule.id) = req[r].response.rule_evaluations[n].o.rule_set_id
            /\ DOMAIN req[r].response.computed.o
                    \subseteq {d.key : d \in PublishedOf("compute_definitions", req[r].studyId)}

\* An intake answered 201 that evaluated a published rule set of its study while
\* the store held a matching rule set that is not published, or another study's
C14_Witness ==
    \E r \in DOMAIN req :
        /\ req[r].pc = "done" /\ req[r].response.status = 201
        /\ Len(tables.rule_evaluations) = 1
        /\ Len(tables.rule_sets) = 2
        /\ \E i \in DOMAIN tables.rule_sets :
              \/ tables.rule_sets[i].status # "published"
              \/ tables.rule_sets[i].study_id = OtherStudy

\* The returned call is of evaluateExpression on a group whose children are in
\* list
GroupReturned(kind, list) ==
    /\ call.fn = "evaluateExpression" /\ call.returned
    /\ call.expression = Obj([x \in {kind} |-> Arr(list)])

\* The value child i of list evaluates to in the call's context
ChildValue(list, i) == evaluateExpression(list[i], call.context).v

\* C15: evaluateExpression on {all: children} returns true exactly when every
\* child evaluates to true, and on {any: children} exactly when at least one
\* child does; {all: []} gives true and {any: []} false.
C15_AllAny ==
    \A list \in ListsOf(Children) :
        /\ GroupReturned("all", list) =>
                /\ ~call.outcome.thrown
                /\ call.outcome.v = (\A i \in DOMAIN list : ChildValue(list, i))
                /\ list = <<>> => call.outcome.v = TRUE
        /\ GroupReturned("any", list) =>
                /\ ~call.outcome.thrown
                /\ call.outcome.v = (\E i \in DOMAIN list : ChildValue(list, i))
                /\ list = <<>> => call.outcome.v = FALSE

\* An all group with a true child followed by a false one, evaluated
C15_Witness ==
    \E list \in ListsOf(Children) :
        /\ GroupReturned("all", list)
        /\ Len(list) = 2
        /\ ChildValue(list, 1) /\ ~ChildValue(list, 2)
        /\ call.outcome = Ok(FALSE)

\* C16: evaluateExpression on {not: E} returns the negation of what
\* evaluateExpression returns on E in the same context; a comparison or a
\* between with a missing or null operand is false, and its negation true.
C16_NotNegates ==
    \A e \in Leaves \cup Groups :
        (call.fn = "evaluateExpression" /\ call.returned /\ call.expression = NotOf(e)) =>
            /\ ~call.outcome.thrown
            /\ call.outcome.v = ~evaluateExpression(e, call.context).v
            /\ (e.o = [op |-> Str("between"), left |-> Var("answers.age"),
                       min |-> Num(18), max |-> Null]) => call.outcome.v = TRUE
            /\ ("age" \notin DOMAIN call.context.answers.o /\ e \in {Adult, Over21})
                    => call.outcome.v = TRUE

\* The negation of a comparison whose left operand is missing, evaluated to true
C16_Witness ==
    /\ call.fn = "evaluateExpression" /\ call.returned
    /\ call.expression = NotOf(Adult)
    /\ call.context.answers = EmptyObj
    /\ call.outcome = Ok(TRUE)

\* C17: whatever the rule payloads in the store, no intake is answered with the
\* catch's response to a TypeError raised while its rules were evaluated.
C17_RulePayloadsTotal ==
    \A r \in DOMAIN req : req[r].pc = "done" => req[r].response # CatchResponse(TypeError)

BothDurations ==
    /\ call.fn = "durationMinutes"
    /\ Len(call.outcomes) = 2
    /\ call.outcomes[1] # Null /\ call.outcomes[2] # Null

\* The two durations add up to a day
DurationsAddUp ==
    call.outcomes[1].n * Denominator(call.outcomes[2])
        + call.outcomes[2].n * Denominator(call.outcomes[1])
    = 1440 * Denominator(call.outcomes[1]) * Denominator(call.outcomes[2])

\* The minutes the time parser reads from two values are the same
SameTime(a, b) ==
    parseTimeToMinutes(a).n * Denominator(parseTimeToMinutes(b))
        = parseTimeToMinutes(b).n * Denominator(parseTimeToMinutes(a))

\* C19 as stated: for a # b with both durations non-null, duration(a, b) +
\* duration(b, a) = 1440.
C19_DurationsAddUpForDistinctInputs ==
    (BothDurations /\ call.start # call.end) => DurationsAddUp

\* C19, amended: for a and b that the time parser reads as different numbers of
\* minutes, duration(a, b) + duration(b, a) = 1440; for a and b it reads as the
\* same number of minutes both durations are 0.
C19_DurationsAddUp ==
    BothDurations =>
        IF SameTime(call.start, call.end)
        THEN call.outcomes = <<Num(0), Num(0)>>
        ELSE DurationsAddUp

\* 22:00 to 06:00 and back: 480 and 960 minutes
C19_Witness ==
    /\ BothDurations
    /\ call.start = Str("22:00") /\ call.end = Str("06:00")
    /\ call.outcomes = <<Num(480), Num(960)>>

\* The zero-padded HH:MM texts with HH in 00..23 and MM in 00..59
CanonicalTimes == {Str(Pad2(h) \o ":" \o Pad2(m)) : h \in 0..23, m \in 0..59}

\* C20: normalize_time of a value the time parser accepts is a canonical HH:MM
\* text, and normalize_time of that text is the same text.
C20_NormalizeIdempotent ==
    call.fn = "normalizeTime" =>
        /\ Len(call.outcomes) >= 1 =>
                call.outcomes[1] = Null \/ call.outcomes[1] \in CanonicalTimes
        /\ Len(call.outcomes) = 2 => call.outcomes[2] = call.outcomes[1]

\* Whether a group_assignment payload names an assignment: an assignment object
\* with key and value, or group_key and group_value both set
NamesAssignment(payload) ==
    LET assignment == GetProperty(payload, "assignment")
    IN \/ /\ assignment.t = "object"
          /\ {"key", "value"} \subseteq DOMAIN assignment.o
       \/ /\ ~IsNullish(GetProperty(payload, "group_key"))
          /\ ~IsNullish(GetProperty(payload, "group_value"))

\* C21: once an intake is answered 201, every rule it loaded has its evaluation,
\* and a group_assignment rule has an entry in assignments exactly when it
\* matched and its payload names an assignment (an assignment object with key
\* and value, or group_key and group_value both set); participant_assignments
\* has one row per entry.
C21_AssignmentOnlyWhenNamed ==
    \A r \in DOMAIN req :
        req[r].response.status = 201 =>
            /\ Len(req[r].evaluations) = Len(req[r].rules)
            /\ \A i \in DOMAIN req[r].rules :
                  req[r].rules[i].rule_type = "group_assignment" =>
                      ((\E k \in DOMAIN req[r].assignments :
                            req[r].assignments[k].rule_set_id = req[r].rules[i].id)
                       <=> /\ req[r].evaluations[i].o.matched.b
                           /\ NamesAssignment(parseJsonValue(req[r].rules[i].expression_json,
                                                             EmptyObj)))
            /\ Len(tables.participant_assignments) = Len(req[r].assignments)

\* The arguments of the arithmetic definition p of the call, and its value
ArithmeticArgsOfCall == call.definitions[2].definition.o.args.a
ArithmeticResult == GetProperty(call.outcomes[1].v, "p")

\* C22: the value of an arithmetic definition is null whenever one of its
\* arguments is null (the literal, or computed.k that resolved to null), and
\* it is always null or a finite number.
C22_ArithmeticNullOrFinite ==
    (call.fn = "computeDefinitions" /\ Len(call.outcomes) = 1) =>
        /\ ~call.outcomes[1].thrown
        /\ GetProperty(call.outcomes[1].v, "k") = Null
        /\ (\E i \in DOMAIN ArithmeticArgsOfCall :
                ArithmeticArgsOfCall[i] \in {Null, Var("computed.k")})
            => ArithmeticResult = Null
        /\ ArithmeticResult = Null \/ IsFiniteNumber(ArithmeticResult)

RECURSIVE OwnPath(_, _)
\* The value at the end of a path that steps only through string-keyed maps and
\* their own keys: undefined as soon as a segment is missing or the value
\* reached is no map
OwnPath(target, path) ==
    IF path = <<>> THEN target
    ELSE IF target.t = "object" /\ Head(path) \in DOMAIN target.o
    THEN OwnPath(target.o[Head(path)], Tail(path))
    ELSE Undefined

\* C23: resolveVariable returns the value at the end of the path through own
\* keys of string-keyed maps, and undefined whenever a segment is missing, the
\* value reached is no such map (a list included) or the scope is unknown.
C23_PathThroughMapsOnly ==
    (call.fn = "resolveVariable" /\ call.returned) =>
        call.outcome =
            IF Head(Split(call.variable)) \in {"answers", "computed", "metadata"}
            THEN OwnPath(call.context[Head(Split(call.variable))], Tail(Split(call.variable)))
            ELSE Undefined

\* The comparable key of an operand of the call
ComparableOf(operand) == toComparable(resolveOperand(operand, call.context).v)

\* C24: a between and the pair of comparisons >= min and <= max over the same
\* operands and context return the same boolean; it is false when left, min
\* or max coerces to null, and for three numbers it is min <= left <= max.
C24_BetweenIsBothBounds ==
    (call.fn = "evaluateExpression" /\ call.between # <<>>) =>
        LET left == ComparableOf(call.left)
            min == ComparableOf(call.min)
            max == ComparableOf(call.max)
        IN /\ ~call.between[1].thrown
           /\ call.bounds # <<>> => call.bounds[1] = call.between[1]
           /\ Null \in {left, min, max} => ~call.between[1].v
           /\ (left.t = "number" /\ min.t = "number" /\ max.t = "number")
                => (call.between[1].v <=> (min.n <= left.n /\ left.n <= max.n))

\* Both forms evaluated, left on the upper bound and within the range
C24_Witness ==
    /\ call.fn = "evaluateExpression"
    /\ call.between = <<Ok(TRUE)>>
    /\ call.bounds = <<Ok(TRUE)>>
    /\ call.left = Var("answers.age")
    /\ call.context.answers = Obj([age |-> Num(21)])
    /\ call.min = Num(18)
    /\ call.max = Obj([value |-> Num(21)])

\* The message a field of the call is due, "" for none: nothing for an absent
\* optional field, 'Field is required' for an absent required one, else the
\* first issue of its schema
IssueDue(i) ==
    LET field == call.fields[i]
        rawValue == IF field.key \in DOMAIN call.answers.o
                    THEN call.answers.o[field.key] ELSE Undefined
        absent == rawValue \in {Undefined, Null, Str("")}
    IN IF absent THEN (IF field.required = Num(1) THEN "Field is required" ELSE "")
       ELSE FieldIssue(field, parseOptionalJson(field.options_json),
                       parseOptionalJson(field.validation_json), rawValue)

\* The fields of the call that are due an issue, and the k-th of them
FieldsDue == {i \in DOMAIN call.fields : IssueDue(i) # ""}
FieldDue(k) == CHOOSE i \in FieldsDue : Cardinality({j \in FieldsDue : j < i}) = k - 1

\* C25: validateAnswers returns one issue for every field due one, the fields
\* after a failing field included, and no other issue: the issues are in field
\* order, an absent optional field has none, an absent required field has
\* 'Field is required', and valid is true exactly when there is no issue.
C25_OneIssuePerFailingField ==
    (call.fn = "validateAnswers" /\ call.returned) =>
        /\ Len(call.outcome.errors) = Cardinality(FieldsDue)
        /\ \A k \in DOMAIN call.outcome.errors :
              call.outcome.errors[k] =
                  [key |-> call.fields[FieldDue(k)].key, message |-> IssueDue(FieldDue(k))]
        /\ call.outcome.valid <=> call.outcome.errors = <<>>

\* An absent optional field, then two failing fields: both issues, in order
C25_Witness ==
    /\ call.fn = "validateAnswers"
    /\ call.returned
    /\ Len(call.fields) = 3
    /\ call.fields[1].key = "wake"
    /\ call.answers = Obj([age |-> Str("abc")])
    /\ ~call.outcome.valid
    /\ call.outcome.errors = <<[key |-> "name", message |-> "Field is required"],
                               [key |-> "age", message |-> "Expected a number"]>>

\* C26: computeDefinitions returns the same key-to-value map for an acyclic
\* list of definitions of distinct keys and for the same definitions in any
\* other order, and neither call throws.
C26_SameMapInAnyOrder ==
    (call.fn = "computeDefinitions" /\ Len(call.outcomes) = 2) =>
        /\ ~call.outcomes[1].thrown
        /\ call.outcomes[2] = call.outcomes[1]

\* What a request alone is due over the store of IsolationSpec, from its own
\* answers: a = age + 1 when the definition is there, and a rule matched when
\* the age reaches the rule's threshold (18 for adult, 21 for arm and visit)
AgeOf(q) == q.body.o.answers.o.age.n

ComputedAlone(q) ==
    IF q.computeDefinitionsList = <<>> THEN EmptyObj ELSE Obj([a |-> Num(AgeOf(q) + 1)])

MatchedAlone(q, rule) == AgeOf(q) >= (IF rule.name = "adult" THEN 18 ELSE 21)

\* The rows of table, in the store, that carry the participant and study of q
RowsOfParticipant(table, q) ==
    SelectSeq(tables[table],
              LAMBDA row : row.participant_id = q.participantId /\ row.study_id = q.studyId)

\* C27: with two intakes interleaved at their store calls, the values each
\* request holds, persists and returns are those it is due alone from its own
\* answers and metadata: its computed values and their rows, its rule results
\* and their rows, its assignments and plan and their rows; and every row it
\* wrote carries its own submission_id, participant_id and study_id.
C27_RequestsIsolated ==
    \A r \in DOMAIN req :
        LET q == req[r]
        IN Wrote(r, "form_submissions") =>
            /\ tables.form_submissions[q.submissionId] =
                    [id |-> q.submissionId] @@ SubmissionRow(q)
            /\ q.pc # "select_compute" =>
                    /\ q.computedValues = ComputedAlone(q)
                    /\ q.metadata = Metadata(q, q.submissionId)
            /\ Len(RowsOf(tables, "computed_values", q.submissionId))
                    = Count(q.writes, "computed_values")
            /\ \A i \in DOMAIN tables.computed_values :
                    tables.computed_values[i].submission_id = q.submissionId =>
                        tables.computed_values[i].value_json = JsonStringify(Num(AgeOf(q) + 1))
            /\ \A i \in DOMAIN q.evaluations :
                    q.evaluations[i].o.matched.b = MatchedAlone(q, q.rules[i])
            /\ Len(RowsOf(tables, "rule_evaluations", q.submissionId))
                    = Count(q.writes, "rule_evaluations")
            /\ \A i \in DOMAIN tables.rule_evaluations :
                    tables.rule_evaluations[i].submission_id = q.submissionId =>
                        \E k \in DOMAIN q.rules :
                            /\ q.rules[k].id = tables.rule_evaluations[i].rule_set_id
                            /\ tables.rule_evaluations[i].result_bool
                                    = (IF MatchedAlone(q, q.rules[k]) THEN 1 ELSE 0)
            /\ Len(q.assignments) =
                    Cardinality({i \in DOMAIN q.evaluations :
                                    /\ q.rules[i].rule_type = "group_assignment"
                                    /\ MatchedAlone(q, q.rules[i])})
            /\ Len(q.schedulePlans) =
                    Cardinality({i \in DOMAIN q.evaluations :
                                    /\ q.rules[i].rule_type = "scheduling"
                                    /\ MatchedAlone(q, q.rules[i])})
            /\ Len(RowsOfParticipant("participant_assignments", q))
                    = Count(q.writes, "participant_assignments")
            /\ Len(RowsOfParticipant("schedule_plans", q)) = Count(q.writes, "schedule_plans")
            /\ q.response.status = 201 =>
                    /\ q.response = SuccessResponse(q)
                    /\ q.response.computed = JsonValue(ComputedAlone(q))
                    /\ q.response.submission.participant_id = ParticipantOf(r)
                    /\ Count(q.writes, "computed_values") = Len(q.computeDefinitionsList)
                    /\ Count(q.writes, "rule_evaluations") = Len(q.rules)
                    /\ Count(q.writes, "participant_assignments") = Len(q.assignments)
                    /\ Count(q.writes, "schedule_plans")
                            = (IF Len(q.schedulePlans) > 0 THEN 1 ELSE 0)

\* Both answered 201 after interleaved store calls, the later arrival's
\* submission inserted first, with different answers and different results
C27_Witness ==
    /\ req[1].response.status = 201 /\ req[2].response.status = 201
    /\ req[1].submissionId = 2 /\ req[2].submissionId = 1
    /\ AgeOf(req[1]) = 15 /\ AgeOf(req[2]) = 24
    /\ req[1].computedValues = Obj([a |-> Num(16)])
    /\ req[2].computedValues = Obj([a |-> Num(25)])
    /\ Len(req[1].evaluations) = 1 /\ ~req[1].evaluations[1].o.matched.b
    /\ Len(req[2].evaluations) = 1 /\ req[2].evaluations[1].o.matched.b
    /\ req[2].writes[Len(req[2].writes) - 1] \in {"participant_assignments", "schedule_plans"}

\* C28 as stated: a request answered with a status other than 201 has left no
\* row in any table, and every form_submissions row belongs to a request that
\* was answered 201.
C28_FailureLeavesNoRow ==
    \A r \in DOMAIN req :
        (req[r].pc = "done" /\ req[r].response.status # 201) =>
            /\ req[r].writes = <<>>
            /\ \A i \in DOMAIN tables.form_submissions :
                    tables.form_submissions[i].id # req[r].submissionId

\* The responses given before the form_submissions insert: the body rejected by
\* the schema, the template missing, the answers invalid
AnsweredBeforeInsert(q) ==
    \/ q.response = CatchResponse([text |-> "ZodError"])
    \/ q.response.status = 404
    \/ (q.response.status = 400 /\ "errors" \in DOMAIN q.response)

\* C28 amended: a request answered with a status other than 201 before its
\* form_submissions insert (body rejected, template missing, answers invalid)
\* has written nothing; one answered so after the insert (a compute cycle, an
\* error raised by a rule payload, a rejected store call) keeps its
\* form_submissions row and every row it wrote before the failure.
C28_FailureBeforeInsertLeavesNoRow ==
    \A r \in DOMAIN req :
        (req[r].pc = "done" /\ req[r].response.status # 201) =>
            /\ AnsweredBeforeInsert(req[r]) => req[r].writes = <<>>
            /\ req[r].valid = "invalid" => AnsweredBeforeInsert(req[r])
            /\ req[r].writes = <<>> <=> req[r].submissionId = 0
            /\ req[r].writes # <<>> =>
                    /\ req[r].writes[1] = "form_submissions"
                    /\ tables.form_submissions[req[r].submissionId] =
                            [id |-> req[r].submissionId] @@ SubmissionRow(req[r])
            /\ WritesAccounted

\* A compute cycle answered 400 with the submission's row in the store
C28_Witness ==
    \E r \in DOMAIN req :
        /\ req[r].pc = "done"
        /\ req[r].response = CatchResponse(CircularError("a"))
        /\ req[r].writes = <<"form_submissions">>
        /\ Len(tables.form_submissions) = 1

\* The system's metadata fields of request q, by name
SystemFields(q) ==
    [study_id |-> Str(q.studyId), participant_id |-> Str(q.participantId),
     form_template_id |-> q.body.o.form_template_id,
     submission_id |-> Num(q.submissionId), submitted_at |-> Str(IsoString(q.submissionTime))]

\* The metadata of the body of q: none is the empty map
CallerFields(q) ==
    IF "metadata" \in DOMAIN q.body.o /\ q.body.o.metadata.t = "object"
    THEN q.body.o.metadata.o ELSE <<>>

\* Request q has built its evaluation context
HasContext(q) == q.pc \notin {"idle", "select_template", "select_fields",
                              "insert_submission", "select_compute"}
                 /\ q.submissionId > 0

\* The evaluations of q for the rule own (metadata.participant_id == 'P1')
OwnEvaluations(q) == {i \in DOMAIN q.evaluations : q.rules[i].name = "own"}

\* C29 as stated: the system's fields of the metadata the definitions and rules
\* see are those of the request, whatever the body's metadata holds, so the
\* rule own matches for every request of participant P1 and a := study_id is
\* the request's study.
C29_SystemFieldsOfRequest ==
    \A r \in DOMAIN req :
        HasContext(req[r]) =>
            /\ \A f \in DOMAIN SystemFields(req[r]) :
                    GetProperty(req[r].metadata, f) = SystemFields(req[r])[f]
            /\ \A i \in OwnEvaluations(req[r]) : req[r].evaluations[i].o.matched.b
            /\ HasProperty(req[r].computedValues, "a") =>
                    GetProperty(req[r].computedValues, "a") = Str(req[r].studyId)

\* C29 amended: a system field of the metadata is the request's value unless
\* the body's metadata has a key of that name, whose value then takes its
\* place; the rule own and the definition a read the field as it then is.
C29_CallerFieldsOverride ==
    \A r \in DOMAIN req :
        HasContext(req[r]) =>
            LET seen(f) == IF f \in DOMAIN CallerFields(req[r])
                           THEN CallerFields(req[r])[f] ELSE SystemFields(req[r])[f]
            IN /\ \A f \in DOMAIN SystemFields(req[r]) :
                        GetProperty(req[r].metadata, f) = seen(f)
               /\ \A f \in DOMAIN CallerFields(req[r]) :
                        GetProperty(req[r].metadata, f) = CallerFields(req[r])[f]
               /\ \A i \in OwnEvaluations(req[r]) :
                        req[r].evaluations[i].o.matched.b
                            <=> (seen("participant_id") = Str(Participant))
               /\ HasProperty(req[r].computedValues, "a") =>
                        GetProperty(req[r].computedValues, "a") = seen("study_id")

\* An intake of P1 answered 201 whose body names another participant: the rule
\* own does not match
C29_Witness ==
    \E r \in DOMAIN req :
        /\ req[r].response.status = 201
        /\ req[r].participantId = Participant
        /\ CallerFields(req[r]) = [participant_id |-> Str("P2")]
        /\ GetProperty(req[r].metadata, "participant_id") = Str("P2")
        /\ OwnEvaluations(req[r]) # {}
        /\ \A i \in OwnEvaluations(req[r]) : ~req[r].evaluations[i].o.matched.b

\* The intakes answered 201 before the result request v arrived that no other
\* such intake follows
LatestAnswered(v) ==
    {r \in view[v].settled :
        /\ req[r].response.status = 201
        /\ \A o \in view[v].settled :
                req[o].response.status = 201 => req[o].submissionTime <= req[r].submissionTime}

\* C30: after intakes of a (study, participant) received one after another, a
\* result request answered 200 returns the submission of the latest intake and
\* the schedule_plan of that intake's response, null when it matched no
\* scheduling rule.
C30_PlanOfLatestIntake ==
    \A v \in DOMAIN view :
        (view[v].pc = "done" /\ view[v].response.status = 200) =>
            \A r \in LatestAnswered(v) :
                /\ view[v].submissionId = req[r].submissionId
                /\ view[v].response.schedule_plan = req[r].response.schedule_plan
                /\ req[r].schedulePlans = <<>> =>
                        view[v].response.schedule_plan = JsonValue(Null)

\* The intakes answered 201 before the result request v arrived that matched a
\* scheduling rule, and the latest of them
PlannedBefore(v) ==
    {r \in view[v].settled : req[r].response.status = 201 /\ req[r].schedulePlans # <<>>}

LatestPlanned(v) ==
    {r \in PlannedBefore(v) :
        \A o \in PlannedBefore(v) : req[o].submissionTime <= req[r].submissionTime}

\* C30 amended: after intakes received one after another, a result request
\* answered 200 returns the submission of the latest intake, and as
\* schedule_plan the plan of the latest intake that matched a scheduling rule,
\* whether or not that is the submission returned; null when no intake of the
\* pair matched one.
C30_PlanOfLatestPlannedIntake ==
    \A v \in DOMAIN view :
        (view[v].pc = "done" /\ view[v].response.status = 200) =>
            /\ \A r \in LatestAnswered(v) : view[v].submissionId = req[r].submissionId
            /\ \A r \in LatestPlanned(v) :
                    view[v].response.schedule_plan = req[r].response.schedule_plan
            /\ LatestPlanned(v) = {} => view[v].response.schedule_plan = JsonValue(Null)

\* A result answered 200 after two intakes of which only the earlier matched
\* the scheduling rule: the submission is the later one's, the plan the earlier's
C30_Witness ==
    \E v \in DOMAIN view : \E r \in LatestAnswered(v) : \E o \in LatestPlanned(v) :
        /\ view[v].pc = "done" /\ view[v].response.status = 200
        /\ req[r].schedulePlans = <<>>
        /\ req[o].submissionTime < req[r].submissionTime
        /\ view[v].submissionId = req[r].submissionId
        /\ view[v].response.schedule_plan = req[o].response.schedule_plan
        /\ view[v].response.schedule_plan # JsonValue(Null)

====
